---- MODULE Spec2Model ----
(***************************************************************************)
(* Verification model of the oliveyoung product collector: the weekly     *)
(* History Store (api/product_api.py) and the reconciliation engine that  *)
(* retries products missing from the current week (retry/manager.py,      *)
(* retry/utils.py, collectors/oliveyoung_collector.py).                    *)
(*                                                                         *)
(* Conventions: Python's None is the number 0 for optional integers       *)
(* (brand ids, target year/week, ranks) and the empty string for optional *)
(* strings (goods_no, disp_cat_no, brand); both are falsy in the code's   *)
(* truth tests as well.  A date is a tuple <<year, month, day>>.          *)
(***************************************************************************)
EXTENDS Integers, Sequences, FiniteSets, TLC

VARIABLES
    today,      \* index into Days: the day datetime.now() falls on
    history,    \* table cosmetics_products_history: a set of rows
    brands,     \* table cosmetics_brands: a set of rows [id, name]
    brandSeq,   \* auto-increment counter of cosmetics_brands.id
    calls,      \* number of History Store appends made so far
    last,       \* the most recent History Store append: arguments and outcome
    catalog,    \* table cosmetics_products: goods_no of the rows with del_yn = 'N'
    retries,    \* table cosmetics_products_history_retries, in retry_id order
    sweep,      \* the running process_missing_products call: its locals
    dbop,       \* the latest call of a function wrapped by retry_db_operation
    iso,        \* a call of get_previous_iso_week: arguments and result
    sess,       \* a collector and the request it is making
    crawl,      \* a collect_from_category run: its locals
    rank,       \* the rank collection of one category group of a sweep
    prod,       \* one product on its way from the detail page to the store
    run,        \* a collection run over the categories of the day: its locals
    sweeps,     \* two process_missing_products calls running side by side
    writers     \* two _save_to_history_table calls running side by side

storeVars == <<history, brands, brandSeq, last>>
retryVars == <<catalog, retries, sweep>>
auxVars == <<dbop, iso, sess, crawl, rank, prod, run, sweeps, writers>>
vars == <<today, history, brands, brandSeq, calls, last, catalog, retries, sweep,
          dbop, iso, sess, crawl, rank, prod, run, sweeps, writers>>

---------------------------------------------------------------------------
(* Bounds and universe *)

MaxBatch == 2          \* longest batch handed to one append
MaxCalls == 2          \* appends per behaviour of the store specification
FirstYear == 2015      \* ISO years handed to get_previous_iso_week
LastYear == 2030
MaxListed == 4         \* longest popularity-ordered listing of a category
MaxSales == 2          \* longest sales-ordered listing of a category
MaxPages == 2          \* most listing pages of a category
MaxPageGoods == 2      \* most products on one listing page
MaxCollected == 1      \* most products one category run reports collected

None == 0

BrandNames == {"A", "B"}

\* Days the clock visits, in order: a Monday in ISO week 2024-W52, the Monday
\* 2024-12-30 (ISO week 2025-W01, calendar year 2024), and a Monday in 2025-W03.
Days == << <<2024, 12, 23>>, <<2024, 12, 30>>, <<2025, 1, 13>> >>

---------------------------------------------------------------------------
(* The proleptic Gregorian calendar of datetime: date.isocalendar() *)

IsLeap(y) == (y % 4 = 0) /\ ((y % 100 # 0) \/ (y % 400 = 0))

DaysInMonth(y, m) ==
    IF m = 2 THEN (IF IsLeap(y) THEN 29 ELSE 28)
    ELSE IF m \in {4, 6, 9, 11} THEN 30 ELSE 31

RECURSIVE DaysBeforeMonth(_, _)
DaysBeforeMonth(y, m) ==
    IF m = 1 THEN 0 ELSE DaysBeforeMonth(y, m - 1) + DaysInMonth(y, m - 1)

DaysBeforeYear(y) ==
    (y - 1) * 365 + ((y - 1) \div 4) - ((y - 1) \div 100) + ((y - 1) \div 400)

Ymd2Ord(date) == DaysBeforeYear(date[1]) + DaysBeforeMonth(date[1], date[2]) + date[3]

\* ordinal of the Monday that starts ISO week 1 of year y
IsoWeek1Monday(y) ==
    LET firstday == Ymd2Ord(<<y, 1, 1>>)
        firstweekday == (firstday + 6) % 7
        week1monday == firstday - firstweekday
    IN  IF firstweekday > 3 THEN week1monday + 7 ELSE week1monday

\* date.isocalendar(): <<ISO year, ISO week, ISO weekday>>
IsoCalendar(date) ==
    LET y == date[1]
        ord == Ymd2Ord(date)
        w == (ord - IsoWeek1Monday(y)) \div 7
        wd == (ord - IsoWeek1Monday(y)) % 7
    IN  IF w < 0
        THEN <<y - 1, ((ord - IsoWeek1Monday(y - 1)) \div 7) + 1,
               ((ord - IsoWeek1Monday(y - 1)) % 7) + 1>>
        ELSE IF w >= 52 /\ ord >= IsoWeek1Monday(y + 1)
        THEN <<y + 1, 1, wd + 1>>
        ELSE <<y, w + 1, wd + 1>>

\* retry/utils.py get_current_iso_week, for the instant `date`
get_current_iso_week(date) == <<IsoCalendar(date)[1], IsoCalendar(date)[2]>>

---------------------------------------------------------------------------
(* History Store: ProductAPI._get_or_create_brand, _save_to_history_table *)

RowKey(r) == <<r.goods_no, r.disp_cat_no, r.year, r.week_of_year>>

\* faulty variant: the select has lost its filter on the name
BrandLookupUnfiltered(tbl, brand_name) == tbl

\* select(CosmBrand).filter(CosmBrand.name == brand_name)
BrandLookup(tbl, brand_name) == {b \in tbl : b.name = brand_name}

\* Returns [id, brands, seq, broken].  `fault` is a database error raised by the
\* select or the flush; the blanket except turns every exception into None.
\* The retry_db_operation wrapper never sees an exception from this body.
GetOrCreateBrand(tbl, seq, brand_name, fault) ==
    IF brand_name = ""
    THEN [id |-> None, brands |-> tbl, seq |-> seq, broken |-> FALSE]
    ELSE IF fault
    THEN [id |-> None, brands |-> tbl, seq |-> seq, broken |-> FALSE]
    ELSE LET found == BrandLookup(tbl, brand_name) IN
         IF Cardinality(found) > 1
         THEN \* scalar_one_or_none raises MultipleResultsFound
              [id |-> None, brands |-> tbl, seq |-> seq, broken |-> FALSE]
         ELSE IF found # {}
         THEN [id |-> (CHOOSE b \in found : TRUE).id, brands |-> tbl,
               seq |-> seq, broken |-> FALSE]
         ELSE IF \E b \in tbl : b.name = brand_name
         THEN \* flush violates UNIQUE(name): IntegrityError, the session's
              \* transaction is unusable until rollback
              [id |-> None, brands |-> tbl, seq |-> seq + 1, broken |-> TRUE]
         ELSE [id |-> seq + 1,
               brands |-> tbl \cup {[id |-> seq + 1, name |-> brand_name]},
               seq |-> seq + 1, broken |-> FALSE]

\* faulty variant: the week is always taken from the collection time
EffectiveWeekOfCollection(collection_date, target_week) ==
    IsoCalendar(collection_date)[2]

\* year / week_of_year of the rows of one append (lines 115-117)
EffectiveYear(collection_date, target_year) ==
    IF target_year # None THEN target_year ELSE collection_date[1]

EffectiveWeek(collection_date, target_week) ==
    IF target_week # None THEN target_week ELSE IsoCalendar(collection_date)[2]

\* products that carry both key parts (lines 126-142)
ValidProducts(products) ==
    SelectSeq(products, LAMBDA p : p.goods_no # "" /\ p.disp_cat_no # "")

\* faulty variant: the lookup of stored keys finds nothing
ExistingKeysNone(tbl, query_pairs, year, week_of_year) == {}

\* the bulk lookup of keys already stored for this year/week (lines 151-179)
ExistingKeys(tbl, query_pairs, year, week_of_year) ==
    {RowKey(r) : r \in {x \in tbl : /\ x.year = year
                                    /\ x.week_of_year = week_of_year
                                    /\ <<x.goods_no, x.disp_cat_no>> \in query_pairs}}

\* faulty variant: the brand is looked up by name whatever the record carries
ResolveBrandByNameAlways(product, st, brandFault) ==
    IF product.brand = ""
    THEN [st EXCEPT !.brand_id = None]
    ELSE LET g == GetOrCreateBrand(st.brands, st.seq, product.brand,
                                   product.brand \in brandFault)
         IN  [st EXCEPT !.brand_id = g.id,
                        !.brands = g.brands,
                        !.seq = g.seq,
                        !.broken = st.broken \/ g.broken]

\* brand of one surviving record (lines 200-221); st carries the session's
\* brand table, the id counter, the per-batch cache and the session health
ResolveBrand(product, st, brandFault) ==
    IF product.brandId # None
    THEN [st EXCEPT !.brand_id = product.brandId]
    ELSE IF product.brand = ""
    THEN [st EXCEPT !.brand_id = None]
    ELSE IF product.brand \in DOMAIN st.cache
    THEN [st EXCEPT !.brand_id = st.cache[product.brand]]
    ELSE LET g == GetOrCreateBrand(st.brands, st.seq, product.brand,
                                   product.brand \in brandFault)
         IN  [st EXCEPT !.brand_id = g.id,
                        !.brands = g.brands,
                        !.seq = g.seq,
                        !.broken = st.broken \/ g.broken,
                        !.cache = [n \in DOMAIN st.cache \cup {product.brand} |->
                                      IF n = product.brand THEN g.id ELSE st.cache[n]]]

\* the CosmeticsProductHistory object built for one record (lines 224-245);
\* `brand` is not a column: it remembers the name the record carried
HistoryRecord(product, brand_id, collection_date, year, week_of_year) ==
    [goods_no |-> product.goods_no,
     disp_cat_no |-> product.disp_cat_no,
     year |-> year,
     week_of_year |-> week_of_year,
     month |-> collection_date[2],
     collected_at |-> collection_date,
     brandId |-> brand_id,
     popularity_rank |-> product.popularity_rank,
     sales_rank |-> product.sales_rank,
     brand |-> IF product.brandId # None THEN "" ELSE product.brand]

\* the filtering loop (lines 194-248)
RECURSIVE FilterAndResolve(_, _, _, _, _, _, _)
FilterAndResolve(prods, existing_keys, collection_date, year, week_of_year, brandFault, st) ==
    IF prods = <<>> THEN st
    ELSE LET product == Head(prods)
             current_key == <<product.goods_no, product.disp_cat_no, year, week_of_year>>
         IN  IF current_key \notin existing_keys
             THEN LET s2 == ResolveBrand(product, st, brandFault)
                      rec == HistoryRecord(product, s2.brand_id, collection_date,
                                           year, week_of_year)
                  IN  FilterAndResolve(Tail(prods), existing_keys, collection_date,
                                       year, week_of_year, brandFault,
                                       [s2 EXCEPT !.records_to_insert = Append(@, rec)])
             ELSE FilterAndResolve(Tail(prods), existing_keys, collection_date,
                                   year, week_of_year, brandFault,
                                   [st EXCEPT !.skipped_count = @ + 1])

\* faulty variant: a database error during the insert goes unnoticed
BulkSaveFaultSwallowed(tbl, records, broken, insertFault) ==
    \/ broken
    \/ \E i, j \in DOMAIN records : i # j /\ RowKey(records[i]) = RowKey(records[j])
    \/ \E i \in DOMAIN records : \E r \in tbl : RowKey(r) = RowKey(records[i])

\* session.bulk_save_objects + commit fail on a database error, on a session
\* broken by an earlier flush error, and on a PRIMARY KEY violation
\* (goods_no, disp_cat_no, year, week_of_year) of cosmetics_products_history
BulkSaveFails(tbl, records, broken, insertFault) ==
    \/ insertFault
    \/ broken
    \/ \E i, j \in DOMAIN records : i # j /\ RowKey(records[i]) = RowKey(records[j])
    \/ \E i \in DOMAIN records : \E r \in tbl : RowKey(r) = RowKey(records[i])

Range(s) == {s[i] : i \in DOMAIN s}

\* faulty variant: the rows stored for the week of the new records are replaced
BulkSaveReplacingWeek(tbl, records) ==
    {r \in tbl : \A i \in DOMAIN records :
                    <<r.year, r.week_of_year>> # <<records[i].year, records[i].week_of_year>>}
        \cup Range(records)

\* session.bulk_save_objects(records_to_insert) + commit (lines 252-253): the
\* new objects are inserted, no stored row is touched
bulk_save_objects(tbl, records) == tbl \cup Range(records)

\* ProductAPI._save_to_history_table.  Returns the tables after the call, the
\* bool the call returns and the rows it inserted.  Every exception is caught
\* inside the body, so the retry_db_operation wrapper runs the body once.
SaveToHistoryTable(tbl, brandTbl, seq, products, collection_date, target_year, target_week, brandFault, insertFault) ==
    LET unchanged == [history |-> tbl, brands |-> brandTbl, seq |-> seq,
                      result |-> FALSE, inserted |-> {}, skipped |-> 0]
        year == EffectiveYear(collection_date, target_year)
        week_of_year == EffectiveWeek(collection_date, target_week)
        valid == ValidProducts(products)
        incoming_keys == {<<valid[i].goods_no, valid[i].disp_cat_no, year, week_of_year>> :
                             i \in DOMAIN valid}
        query_pairs == {<<k[1], k[2]>> : k \in incoming_keys}
        existing_keys == ExistingKeys(tbl, query_pairs, year, week_of_year)
        st == FilterAndResolve(valid, existing_keys, collection_date, year, week_of_year,
                               brandFault,
                               [brands |-> brandTbl, seq |-> seq, cache |-> <<>>,
                                broken |-> FALSE, brand_id |-> None,
                                records_to_insert |-> <<>>, skipped_count |-> 0])
    IN  IF products = <<>> THEN unchanged
        ELSE IF incoming_keys = {} THEN unchanged
        ELSE IF st.records_to_insert # <<>>
        THEN IF BulkSaveFails(tbl, st.records_to_insert, st.broken, insertFault)
             THEN \* rollback: rows and brands of this session are dropped, the
                  \* auto-increment counter is not given back
                  [unchanged EXCEPT !.seq = st.seq, !.skipped = st.skipped_count]
             ELSE [history |-> bulk_save_objects(tbl, st.records_to_insert),
                   brands |-> st.brands, seq |-> st.seq, result |-> TRUE,
                   inserted |-> Range(st.records_to_insert),
                   skipped |-> st.skipped_count]
        ELSE [unchanged EXCEPT !.result = TRUE, !.skipped = st.skipped_count]

---------------------------------------------------------------------------
(* Inputs of the store specification *)

\* records a crawl can hand to the store
StoreProducts ==
    [goods_no : {"g1", "g2", ""}, disp_cat_no : {"c1"}, brand : {"A"},
     brandId : {None}, popularity_rank : {1}, sales_rank : {1}]
    \cup
    [goods_no : {"g1"}, disp_cat_no : {"c1"}, brand : {"B"},
     brandId : {None}, popularity_rank : {1}, sales_rank : {1}]
    \cup
    [goods_no : {"g2"}, disp_cat_no : {"c1"}, brand : {""},
     brandId : {7}, popularity_rank : {1}, sales_rank : {1}]

RECURSIVE SeqsUpTo(_, _)
SeqsUpTo(S, n) ==
    IF n = 0 THEN {<<>>}
    ELSE SeqsUpTo(S, n - 1) \cup
         {Append(s, x) : s \in {t \in SeqsUpTo(S, n - 1) : Len(t) = n - 1}, x \in S}

Batches == SeqsUpTo(StoreProducts, MaxBatch)

\* explicit target (year, week), or none
Targets == {<<None, None>>, <<2025, 1>>}

NoCall == [op |-> "none", task |-> 0, products |-> <<>>, collection_date |-> Days[1],
           target_year |-> None, target_week |-> None,
           brandFault |-> {}, insertFault |-> FALSE,
           result |-> FALSE, inserted |-> {}, before |-> {},
           repeats_success |-> FALSE]

\* the record of one _save_to_history_table call; previous is the record of
\* the call before it, and repeats_success says that this call repeats, with
\* the same arguments, a call that reported success
CallRecord(op, task, products, collection_date, target_year, target_week, brandFault, insertFault, out, before, previous) ==
    [op |-> op, task |-> task, products |-> products,
     collection_date |-> collection_date,
     target_year |-> target_year, target_week |-> target_week,
     brandFault |-> brandFault, insertFault |-> insertFault,
     result |-> out.result, inserted |-> out.inserted, before |-> before,
     repeats_success |-> /\ previous.op = op
                         /\ previous.products = products
                         /\ previous.collection_date = collection_date
                         /\ previous.target_year = target_year
                         /\ previous.target_week = target_week
                         /\ previous.result]

---------------------------------------------------------------------------
(* Reconciliation engine: retry/utils.py and RetryManager *)

MAX_ATTEMPTS == 3      \* max_attempts of a new retry record
SALES_RANK_CUTOFF == 100

\* faulty variant: the year before is taken to have 52 weeks
GetPreviousIsoWeek52(current_year, current_week) ==
    IF current_week > 1
    THEN <<current_year, current_week - 1>>
    ELSE <<current_year - 1, 52>>

get_previous_iso_week(current_year, current_week) ==
    IF current_week > 1
    THEN <<current_year, current_week - 1>>
    ELSE <<current_year - 1, IsoCalendar(<<current_year - 1, 12, 28>>)[2]>>

\* the name LEFT JOINed from cosmetics_brands, "" when there is none
BrandNameOf(brandTbl, id) ==
    IF \E b \in brandTbl : b.id = id
    THEN (CHOOSE b \in brandTbl : b.id = id).name
    ELSE ""

\* faulty variant: the query has lost its cutoff on the sales rank
FindMissingAnyRank(tbl, brandTbl, cat, prev_year, prev_week, curr_year, curr_week) ==
    {[goods_no |-> prev.goods_no,
      disp_cat_no |-> prev.disp_cat_no,
      brand |-> BrandNameOf(brandTbl, prev.brandId),
      brandId |-> prev.brandId] :
        prev \in {r \in tbl :
                    /\ r.year = prev_year
                    /\ r.week_of_year = prev_week
                    /\ r.goods_no \in cat
                    /\ ~\E curr \in tbl : /\ curr.goods_no = r.goods_no
                                          /\ curr.disp_cat_no = r.disp_cat_no
                                          /\ curr.year = curr_year
                                          /\ curr.week_of_year = curr_week}}

\* the rows find_missing_products selects, as the dicts it builds
find_missing_products(tbl, brandTbl, cat, prev_year, prev_week, curr_year, curr_week) ==
    {[goods_no |-> prev.goods_no,
      disp_cat_no |-> prev.disp_cat_no,
      brand |-> BrandNameOf(brandTbl, prev.brandId),
      brandId |-> prev.brandId] :
        prev \in {r \in tbl :
                    /\ r.year = prev_year
                    /\ r.week_of_year = prev_week
                    /\ r.sales_rank # None
                    /\ r.sales_rank <= SALES_RANK_CUTOFF
                    /\ r.goods_no \in cat
                    /\ ~\E curr \in tbl : /\ curr.goods_no = r.goods_no
                                          /\ curr.disp_cat_no = r.disp_cat_no
                                          /\ curr.year = curr_year
                                          /\ curr.week_of_year = curr_week}}

\* the result set as a list: rows come back in primary-key order of prev
ScanOrder == << <<"g1", "c1">>, <<"g1", "c2">>, <<"g2", "c1">>, <<"g2", "c2">>,
                <<"g3", "c1">>, <<"g3", "c2">> >>

RECURSIVE InScanOrder(_, _)
InScanOrder(S, i) ==
    IF i > Len(ScanOrder) THEN <<>>
    ELSE LET hit == {p \in S : <<p.goods_no, p.disp_cat_no>> = ScanOrder[i]} IN
         (IF hit = {} THEN <<>> ELSE <<CHOOSE p \in hit : TRUE>>) \o InScanOrder(S, i + 1)

NewRetryRecord(product, target_year, target_week) ==
    [goods_no |-> product.goods_no,
     disp_cat_no |-> product.disp_cat_no,
     target_year |-> target_year,
     target_week_of_year |-> target_week,
     status |-> "pending",
     attempt_count |-> 0,
     max_attempts |-> MAX_ATTEMPTS]

\* faulty variant: only the still-open records count as existing
ExistingRetryKeysOpenOnly(tbl, target_year, target_week) ==
    {<<tbl[i].goods_no, tbl[i].disp_cat_no>> :
        i \in {j \in DOMAIN tbl : /\ tbl[j].target_year = target_year
                                  /\ tbl[j].target_week_of_year = target_week
                                  /\ tbl[j].status \in {"pending", "failed"}}}

\* the keys _create_retry_records reads back for the target week
ExistingRetryKeys(tbl, target_year, target_week) ==
    {<<tbl[i].goods_no, tbl[i].disp_cat_no>> :
        i \in {j \in DOMAIN tbl : /\ tbl[j].target_year = target_year
                                  /\ tbl[j].target_week_of_year = target_week}}

\* faulty variant: the table is written afresh with the new records only
CreateRetryRecordsAfresh(tbl, missing_products, target_year, target_week) ==
    [i \in DOMAIN missing_products |->
        NewRetryRecord(missing_products[i], target_year, target_week)]

\* RetryManager._create_retry_records: the table after the bulk insert
create_retry_records(tbl, missing_products, target_year, target_week) ==
    LET existing_records == ExistingRetryKeys(tbl, target_year, target_week)
        fresh == SelectSeq(missing_products,
                           LAMBDA p : <<p.goods_no, p.disp_cat_no>> \notin existing_records)
    IN  tbl \o [i \in DOMAIN fresh |-> NewRetryRecord(fresh[i], target_year, target_week)]

\* faulty variant: the select looks at the attempts left but not at the status
RetryItemsAnyStatus(tbl, target_year, target_week) ==
    SelectSeq([i \in 1..Len(tbl) |-> i],
              LAMBDA i : /\ tbl[i].target_year = target_year
                         /\ tbl[i].target_week_of_year = target_week
                         /\ tbl[i].attempt_count < tbl[i].max_attempts)

\* the select of _process_retry_queue (lines 209-220): retry ids, by created_at
RECURSIVE SelectIds(_, _, _, _)
SelectIds(tbl, i, target_year, target_week) ==
    IF i > Len(tbl) THEN <<>>
    ELSE LET rest == SelectIds(tbl, i + 1, target_year, target_week) IN
         IF /\ tbl[i].target_year = target_year
            /\ tbl[i].target_week_of_year = target_week
            /\ tbl[i].status \in {"pending", "failed"}
            /\ tbl[i].attempt_count < tbl[i].max_attempts
         THEN <<i>> \o rest
         ELSE rest

retry_items(tbl, target_year, target_week) == SelectIds(tbl, 1, target_year, target_week)

\* items_by_cat: the categories in order of first appearance, each with its items
RECURSIVE GroupByCat(_, _, _)
GroupByCat(tbl, items, groups) ==
    IF items = <<>> THEN groups
    ELSE LET it == Head(items)
             cat == tbl[it].disp_cat_no
         IN  IF \E k \in DOMAIN groups : groups[k].cat_id = cat
             THEN GroupByCat(tbl, Tail(items),
                     [k \in DOMAIN groups |->
                        IF groups[k].cat_id = cat
                        THEN [groups[k] EXCEPT !.items = Append(@, it)]
                        ELSE groups[k]])
             ELSE GroupByCat(tbl, Tail(items),
                     Append(groups, [cat_id |-> cat, items |-> <<it>>]))

\* faulty variant: only the first item of the group is marked
MarkFirstItemOnly(tbl, items) ==
    [i \in DOMAIN tbl |->
        IF i = Head(items) THEN [tbl[i] EXCEPT !.status = "product_deleted"] ELSE tbl[i]]

\* RetryManager._mark_category_products_as_deleted
mark_category_products_as_deleted(tbl, items) ==
    [i \in DOMAIN tbl |->
        IF i \in Range(items) THEN [tbl[i] EXCEPT !.status = "product_deleted"] ELSE tbl[i]]

\* faulty variant: the attempt is not counted
ClaimTaskUncounted(task) ==
    [task EXCEPT !.status = "processing"]

\* lines 288-292: the task is claimed
ClaimTask(task) ==
    [task EXCEPT !.status = "processing", !.attempt_count = @ + 1]

\* faulty variant: a failure is always recorded as failed
StatusAfterNeverFinal(task, result) ==
    IF result = "deleted" THEN "product_deleted"
    ELSE IF result = "true" THEN "success"
    ELSE "failed"

\* lines 328-370: the status an attempt's result leaves; result is "deleted",
\* "true", "false" or "raise"
StatusAfter(task, result) ==
    IF result = "deleted" THEN "product_deleted"
    ELSE IF result = "true" THEN "success"
    ELSE IF task.attempt_count >= task.max_attempts THEN "max_retries_reached"
    ELSE "failed"

\* signal remembers what the latest collect_rankings pair answered
Idle == [pc |-> "idle", target_year |-> None, target_week |-> None,
         groups |-> <<>>, ci |-> 0, ii |-> 0,
         pop_found |-> {}, sales_found |-> {}, details |-> {},
         signal |-> ""]

\* faulty variant: the sweep ends with the category
NextCategoryEndsSweep(sw) == [Idle EXCEPT !.signal = sw.signal]

\* the position after category ci is finished
NextCategory(sw) ==
    IF sw.ci < Len(sw.groups)
    THEN [sw EXCEPT !.pc = "rank", !.ci = @ + 1, !.ii = 0,
                    !.pop_found = {}, !.sales_found = {}]
    ELSE [Idle EXCEPT !.signal = sw.signal]

\* rank of a product on a listing that shows the products of `found`
RankOf(goods_no, found) ==
    IF goods_no \in found THEN (IF goods_no = "g1" THEN 1 ELSE 2) ELSE None

---------------------------------------------------------------------------
(* Initial database of the reconciliation specification *)

PrevWeekRow(goods_no, disp_cat_no, brand_id, sales_rank) ==
    [goods_no |-> goods_no, disp_cat_no |-> disp_cat_no,
     year |-> get_current_iso_week(Days[1])[1],
     week_of_year |-> get_current_iso_week(Days[1])[2],
     month |-> Days[1][2], collected_at |-> Days[1],
     brandId |-> brand_id, popularity_rank |-> 1, sales_rank |-> sales_rank,
     brand |-> ""]

\* last week's full collection
CollectedLastWeek ==
    {PrevWeekRow("g1", "c1", 7, 5), PrevWeekRow("g2", "c1", None, 50),
     PrevWeekRow("g1", "c2", None, 100), PrevWeekRow("g2", "c2", None, 101),
     PrevWeekRow("g3", "c2", None, 1)}

\* the retry table as last week's sweeps left it
LeftFromLastWeek ==
    << [NewRetryRecord([goods_no |-> "g1", disp_cat_no |-> "c1"],
                       get_current_iso_week(Days[1])[1],
                       get_current_iso_week(Days[1])[2])
          EXCEPT !.status = "failed", !.attempt_count = 1] >>

---------------------------------------------------------------------------
(* utils/db_retry.py: the retry_db_operation decorator and the two functions
   of ProductAPI it wraps *)

DB_MAX_RETRIES == 3     \* @retry_db_operation(max_retries=3, base_delay=1.0)
DB_BASE_DELAY == 1

DecoratedFunctions == {"_get_or_create_brand", "_save_to_history_table"}

\* what a database call inside the body can raise; "none" is no error
DbFaults == {"none", "OperationalError", "TimeoutError", "IntegrityError"}

TransientErrors == {"OperationalError", "TimeoutError"}

\* One run of a decorated body in which the database raises `fault`.  Both
\* bodies sit in try / except Exception: every exception becomes the return
\* value None (brand) or False (append), nothing is raised to the decorator.
DecoratedBody(func, fault) ==
    IF fault = "none"
    THEN [raised |-> "none", value |-> "ok"]
    ELSE [raised |-> "none",
          value |-> IF func = "_get_or_create_brand" THEN "None" ELSE "False"]

Pow2(n) == IF n = 0 THEN 1 ELSE IF n = 1 THEN 2 ELSE 4

\* wrapper of retry_db_operation from its attempt-th run on; faults[i] is the
\* error the database raises in the i-th run of the body, slept the base
\* backoffs waited so far (the jitter of 0.1..1.0 s is left out)
RECURSIVE retry_db_operation(_, _, _, _)
retry_db_operation(func, faults, attempt, slept) ==
    LET out == DecoratedBody(func, faults[attempt])
        done == [func |-> func, faults |-> faults, runs |-> attempt, slept |-> slept,
                 raised |-> out.raised, value |-> out.value]
    IN  IF out.raised = "none" THEN done
        ELSE IF out.raised \in TransientErrors
        THEN IF attempt >= DB_MAX_RETRIES THEN done
             ELSE retry_db_operation(func, faults, attempt + 1,
                                     Append(slept, DB_BASE_DELAY * Pow2(attempt - 1)))
        ELSE done

NoDbOperation == [func |-> "", faults |-> <<>>, runs |-> 0, slept |-> <<>>,
                  raised |-> "none", value |-> ""]

---------------------------------------------------------------------------
(* Session: _init_cookies, _get_with_delay, _post_with_delay, _retry_request
   of OliveYoungCollector ("plain") and OliveYoungCollectorCurl ("curl"), and
   WebshareProxyManager *)

MAX_RETRY == 3          \* _retry_request(func, max_retry=3, ...)

Variants == {"plain", "curl"}

\* proxy ids of the Webshare list, all valid; "" is no proxy
Proxies == {"p1", "p2"}

\* what the site answers: an HTTP status, or 0 when the request raises a
\* network error (timeout, connection reset)
Responses == {200, 403, 405, 503, 429, 0}

SoftBlock == {403, 503, 405}

\* the requests a collector wraps in _retry_request; mentions429 says that the
\* digits 429 occur in the url (a category or goods number may hold them)
Requests ==
    {[method |-> "GET", mentions429 |-> FALSE],
     [method |-> "GET", mentions429 |-> TRUE],
     [method |-> "POST", mentions429 |-> FALSE]}

NoRequest == [method |-> "", mentions429 |-> FALSE]

\* one entry of the log of a session: "delay" (the randomized pre-delay),
\* "request" (a request sent to the site) or "sleep" (a backoff)
Ev(e, proxy, response, backoff, rate_limited) ==
    [e |-> e, proxy |-> proxy, response |-> response, backoff |-> backoff,
     rate_limited |-> rate_limited]

DelayEv == Ev("delay", "", 0, 0, FALSE)

\* does the request function sleep random.uniform(..) before it sends?  The
\* plain fetch_ingredients hands session.post itself to _retry_request.
HasPreDelay(variant, method) == ~(variant = "plain" /\ method = "POST")

\* does the request function raise on this answer?
Raises(variant, method, response) ==
    IF variant = "plain"
    THEN \/ response = 0
         \/ (method = "GET" /\ response = 405)
    ELSE response = 0 \/ response \in SoftBlock \/ response = 429

\* "Rate limiting" in str(e) or "429" in str(e): the text of the RuntimeError
\* raised for a 429 holds neither; the text for 403/503/405 ends with the url
TextSaysRateLimit(request, response) ==
    response \in SoftBlock /\ request.mentions429

\* the backoff of _retry_request after the attempt-th call failed; jitter is
\* "lo" or "hi", the ends of the random.uniform interval
Backoff(variant, attempt, rate_limited, jitter) ==
    IF variant = "plain"
    THEN 1 * (2 ^ (attempt - 1)) + (IF jitter = "lo" THEN 1 ELSE 3)
    ELSE IF rate_limited
    THEN 2 * (5 ^ attempt) + (IF jitter = "lo" THEN 5 ELSE 10)
    ELSE 2 * (2 ^ (attempt - 1)) + (IF jitter = "lo" THEN 2 ELSE 5)

\* faulty variant: the comparison with max_retry is off by one
GivesUpLate(attempt, max_retry) == attempt > max_retry

\* except-clause of _retry_request: is this the attempt that re-raises?
GivesUp(attempt, max_retry) == attempt = max_retry

\* _retry_request(lambda: _get_with_delay / _post_with_delay) of a variant fed
\* with the answers `responses`, from call number `attempt` on: the number of
\* calls made and how the loop ended; "more" says that the loop goes on past
\* the last answer given
RECURSIVE RunRequest(_, _, _, _)
RunRequest(variant, method, responses, attempt) ==
    IF attempt > Len(responses) THEN [attempts |-> attempt - 1, outcome |-> "more", result |-> None]
    ELSE IF ~Raises(variant, method, responses[attempt])
    THEN [attempts |-> attempt, outcome |-> "returned", result |-> responses[attempt]]
    ELSE IF GivesUp(attempt, MAX_RETRY)
    THEN [attempts |-> attempt, outcome |-> "raised", result |-> responses[attempt]]
    ELSE IF attempt < MAX_RETRY
    THEN RunRequest(variant, method, responses, attempt + 1)
    ELSE [attempts |-> attempt, outcome |-> "returned", result |-> None]

\* WebshareProxyManager.get_random_proxy: the proxies it may return and the
\* failed set it leaves (cleared when every proxy is in it)
get_random_proxy(proxies, failed) ==
    LET valid_proxies == proxies \ failed
    IN  IF valid_proxies = {}
        THEN [choices |-> proxies, failed |-> {}]
        ELSE [choices |-> valid_proxies, failed |-> failed]

\* the proxy part of _get_with_delay / _post_with_delay before the request:
\* the proxies the request may go through and the failed set afterwards
ProxyFor(sn) ==
    IF sn.use_proxy
    THEN IF sn.current_proxy = ""
         THEN get_random_proxy(Proxies, sn.failed)
         ELSE [choices |-> {sn.current_proxy}, failed |-> sn.failed]
    ELSE [choices |-> {""}, failed |-> sn.failed]

\* the current proxy after the answer: a soft block drops it; the manager is
\* not told (mark_proxy_failed has no caller)
ProxyAfter(sn, proxy, response) ==
    IF sn.use_proxy /\ proxy # "" /\ response \in SoftBlock THEN "" ELSE proxy

\* the log entries one call of the request function adds
Sent(variant, method, proxy, response) ==
    (IF HasPreDelay(variant, method) THEN <<DelayEv>> ELSE <<>>)
        \o <<Ev("request", proxy, response, 0, FALSE)>>

NewSession(variant, token, use_proxy) ==
    [pc |-> "new", variant |-> variant, token |-> token, use_proxy |-> use_proxy,
     current_proxy |-> "", failed |-> {}, request |-> NoRequest, attempt |-> 0,
     events |-> <<>>, outcome |-> "", result |-> None]

---------------------------------------------------------------------------
(* Category Crawler: collect_from_category of both collectors *)

BATCH_SIZE == 2         \* config/settings.py: the BATCH_SIZE environment setting

\* goods numbers a listing page can show
Listed == {"g1", "g2"}

\* sales_rank_map = {goods_no: rank for rank, goods_no in enumerate(.., 1)}:
\* a later occurrence of a goods number overwrites an earlier one
SalesRankMap(sales_goods_numbers) ==
    [g \in Range(sales_goods_numbers) |->
        CHOOSE k \in DOMAIN sales_goods_numbers :
            /\ sales_goods_numbers[k] = g
            /\ \A j \in DOMAIN sales_goods_numbers :
                  (sales_goods_numbers[j] = g) => (j <= k)]

\* sales_rank_map.get(goods_no, None)
MapGet(map, key) == IF key \in DOMAIN map THEN map[key] ELSE None

\* faulty variant: the popularity rank counts the collected records only
CrawlRecordCounted(goods_no, category_id, i, collected_products, sales_rank_map) ==
    [goods_no |-> goods_no, disp_cat_no |-> category_id,
     popularity_rank |-> collected_products + 1,
     sales_rank |-> MapGet(sales_rank_map, goods_no)]

\* the fields collect_from_category sets on a detail record (lines 519-526)
CrawlRecord(goods_no, category_id, i, collected_products, sales_rank_map) ==
    [goods_no |-> goods_no, disp_cat_no |-> category_id,
     popularity_rank |-> i,
     sales_rank |-> MapGet(sales_rank_map, goods_no)]

\* faulty variant: the batch is flushed one record late
BatchFullLate(products_batch) == Len(products_batch) > BATCH_SIZE

\* len(products_batch) >= BATCH_SIZE
BatchFull(products_batch) == Len(products_batch) >= BATCH_SIZE

\* flushes: the batches handed to save_products so far; collected: every
\* record appended to products_batch so far
NewCrawl == [pc |-> "start", popularity_goods_numbers |-> <<>>,
             sales_goods_numbers |-> <<>>, i |-> 0, products_batch |-> <<>>,
             collected_products |-> 0, saved_products |-> 0,
             flushes |-> <<>>, collected |-> <<>>]

---------------------------------------------------------------------------
(* Rank collection: OliveYoungCollector.collect_rankings and the rank step
   of RetryManager._process_retry_queue *)

PER_PAGE == 48          \* per_page of collect_rankings

\* what check_category_product_count reads off a page: the count, or -1 when
\* it cannot be extracted
ProductCounts == {-1, 0, 2}

\* a fetched listing page: fetch is "ok" (response.ok), "failed" (an answer
\* that is not ok) or "raise" (_retry_request gave up and re-raised)
FirstPages ==
    {pg \in [fetch : {"ok", "failed", "raise"}, count : ProductCounts,
             goods : SeqsUpTo(Listed, MaxPageGoods)] :
        (pg.fetch # "ok") => (pg.count = -1 /\ pg.goods = <<>>)}

LaterPages == {pg \in FirstPages : pg.count = -1}

\* the pages of a category listing; its length is what get_total_pages said
Listings == {<<first>> \o later : first \in FirstPages,
                                  later \in SeqsUpTo(LaterPages, MaxPages - 1)}

\* lines 735-741: the targets on one page that were not found before
RECURSIVE ScanPage(_, _, _, _, _)
ScanPage(goods_no_list, idx, page, target_goods, rankings) ==
    IF idx > Len(goods_no_list) THEN rankings
    ELSE LET goods_no == goods_no_list[idx] IN
         IF goods_no \in target_goods /\ goods_no \notin DOMAIN rankings
         THEN ScanPage(goods_no_list, idx + 1, page, target_goods,
                       rankings @@ (goods_no :> ((page - 1) * PER_PAGE + idx)))
         ELSE ScanPage(goods_no_list, idx + 1, page, target_goods, rankings)

\* lines 718-749: the loop over the pages; a later page that is not ok is
\* passed over, a raise ends the call in the handler of line 759, the scan
\* stops early when every target is found
RECURSIVE ScanPages(_, _, _, _)
ScanPages(pages, page, target_goods, rankings) ==
    IF page > Len(pages) THEN rankings
    ELSE IF page > 1 /\ pages[page].fetch = "raise" THEN <<>>
    ELSE IF page > 1 /\ pages[page].fetch = "failed"
    THEN ScanPages(pages, page + 1, target_goods, rankings)
    ELSE LET found == ScanPage(pages[page].goods, 1, page, target_goods, rankings) IN
         IF Cardinality(DOMAIN found) >= Cardinality(target_goods) THEN found
         ELSE ScanPages(pages, page + 1, target_goods, found)

\* the dict collect_rankings returns: {'category_empty': True} or a rank map
Rankings(ranks) == [category_empty |-> FALSE, ranks |-> ranks]

CategoryEmptySignal == [category_empty |-> TRUE, ranks |-> <<>>]

\* faulty variant: a count that could not be read is taken for an empty category
CountSaysEmptyOrUnknown(product_count) == product_count <= 0

\* line 708: product_count == 0
CountSaysEmpty(product_count) == product_count = 0

\* OliveYoungCollector.collect_rankings
collect_rankings(pages, target_goods) ==
    IF pages[1].fetch # "ok" THEN Rankings(<<>>)
    ELSE IF CountSaysEmpty(pages[1].count) THEN CategoryEmptySignal
    ELSE Rankings(ScanPages(pages, 1, target_goods, <<>>))

\* lines 194-223 of collect_goods_numbers: the goods numbers of the pages in
\* order; a later page that is not ok is passed over, a raise ends the call in
\* the handler of line 225 with an empty list
RECURSIVE GoodsOfPages(_, _)
GoodsOfPages(pages, page) ==
    IF page > Len(pages) THEN <<>>
    ELSE IF page > 1 /\ pages[page].fetch = "failed" THEN GoodsOfPages(pages, page + 1)
    ELSE pages[page].goods \o GoodsOfPages(pages, page + 1)

\* OliveYoungCollector.collect_goods_numbers
collect_goods_numbers(pages) ==
    IF pages[1].fetch # "ok" THEN <<>>
    ELSE IF \E page \in DOMAIN pages : pages[page].fetch = "raise" THEN <<>>
    ELSE GoodsOfPages(pages, 1)

\* one listing read by both primitives: goods_numbers is what
\* collect_goods_numbers returns for it, rankings what collect_rankings does
NewListing(target_goods) ==
    [pc |-> "listing", target_goods |-> target_goods, pages |-> <<>>,
     goods_numbers |-> <<>>, rankings |-> Rankings(<<>>)]

\* manager.py 253, 266: isinstance(.., dict) and ..get('category_empty', False)
CategoryEmpty(rankings) == rankings.category_empty

\* the methods of the two collector classes RetryManager calls: the curl
\* collector defines neither collect_rankings nor
\* collect_and_save_single_product
Supports(collector, method) ==
    /\ method \in {"collect_rankings", "collect_and_save_single_product"}
    /\ collector = "plain"

\* the collector retry_missing_products() hands to RetryManager
EntryPointCollector == "curl"

NoPage == [fetch |-> "", count |-> -1]

\* verdict is what the rank step decides for the group: "deleted" (the tasks
\* are marked product_deleted), "skipped" (the except of line 274: on to the
\* next category) or "items" (the tasks are attempted one by one)
NewRanking(collector, target_goods) ==
    [pc |-> "pop", collector |-> collector, target_goods |-> target_goods,
     pop_first |-> NoPage, sales_first |-> NoPage,
     pop_rankings |-> Rankings(<<>>), sales_rankings |-> Rankings(<<>>),
     verdict |-> ""]

---------------------------------------------------------------------------
(* Detail records: collect_product_detail, _validate_required_fields and the
   way of a record through collect_from_category into the store *)

\* the brand and the name _validate_required_fields puts in for a missing one
\* (the shop's own name, in Korean in the source)
DEFAULT_BRAND == "OliveYoung"

DefaultName(goods_no) == "OliveYoung product " \o goods_no

\* the price dict parse_meta_info builds: formatted strings, "" when absent
Prices == {[original |-> "", current |-> ""],
           [original |-> "", current |-> "900"],
           [original |-> "1,000", current |-> "900"]}

\* what the request for a detail page and the page extractor give: fetch is
\* "ok", "failed" (an answer that is not ok) or "raise"; html is "deleted"
\* (the page says the product is gone), "short" (under 1000 characters) or
\* "product"; brand, name and price are what parse_meta_info read off it
DetailPages ==
    {pg \in [fetch : {"ok", "failed", "raise"}, html : {"deleted", "short", "product"},
             brand : {"", "A"}, name : {"", "N"}, price : Prices] :
        /\ (pg.fetch # "ok") => (pg.html = "short")
        /\ (pg.html # "product") => (pg.brand = "" /\ pg.name = "" /\ pg.price.current = "")}

\* faulty variant: a missing brand is left missing
WithDefaultName(product_info, goods_no) ==
    [product_info EXCEPT !.name = IF @ = "" THEN DefaultName(goods_no) ELSE @]

\* lines 318-333 of _validate_required_fields: the defaults put in
WithDefaults(product_info, goods_no) ==
    [product_info EXCEPT
        !.brand = IF @ = "" THEN DEFAULT_BRAND ELSE @,
        !.name = IF @ = "" THEN DefaultName(goods_no) ELSE @]

\* faulty variant: a record without any price value is reported valid
ValidateAnyPrice(product_info, goods_no) == TRUE

\* the verdict of _validate_required_fields: after the defaults neither brand
\* nor name is missing and the price dict parse_meta_info built is not empty,
\* so lines 341-344 decide
validate_required_fields(product_info, goods_no) ==
    product_info.price.original # "" \/ product_info.price.current # ""

\* lines 269-289: product_info as collect_product_detail puts it together
ProductInfo(page, goods_no) ==
    [goods_no |-> goods_no, brand |-> page.brand, name |-> page.name,
     price |-> page.price]

\* what collect_product_detail returns: kind "record" with the dict, kind
\* "deleted" for the string 'deleted', kind "None" for None
Returned(kind, product_info) == [kind |-> kind, info |-> product_info]

\* collect_product_detail
collect_product_detail(page, goods_no) ==
    LET product_info == WithDefaults(ProductInfo(page, goods_no), goods_no) IN
    IF page.fetch # "ok" THEN Returned("None", <<>>)
    ELSE IF page.html = "deleted" THEN Returned("deleted", <<>>)
    ELSE IF page.html = "short" THEN Returned("None", <<>>)
    ELSE IF ~validate_required_fields(product_info, goods_no) THEN Returned("None", <<>>)
    ELSE Returned("record", product_info)

\* collect_from_category 515-516: `if product:` and not the string 'deleted'
IsRecord(product) == product.kind = "record"

\* safe_convert_to_int on a formatted price: the digits as a number; the empty
\* string comes back as it is (falsy; written None)
safe_convert_to_int(value) ==
    IF value = "1,000" THEN 1000
    ELSE IF value = "900" THEN 900
    ELSE None

\* preprocess_product_data and lines 224-245 of _save_to_history_table: the
\* columns of the row stored for a record
SnapshotRow(product) ==
    [goods_no |-> product.goods_no, disp_cat_no |-> product.disp_cat_no,
     brand |-> product.brand, name |-> product.name,
     price_original |-> safe_convert_to_int(product.price.original),
     price_current |-> safe_convert_to_int(product.price.current)]

NoDetailPage == [fetch |-> "", html |-> "", brand |-> "", name |-> "",
                 price |-> [original |-> "", current |-> ""]]

\* passed: the records handed to save_products; rows: the rows stored
NewDetail(goods_no) ==
    [pc |-> "detail", goods_no |-> goods_no, page |-> NoDetailPage,
     product |-> Returned("None", <<>>), products_batch |-> <<>>,
     passed |-> <<>>, rows |-> {}, status |-> ""]

---------------------------------------------------------------------------
(* The collection run over the categories: main.py and
   collect_all_categories.py (update_category_status, process_category and
   the loop of collect_today_categories / collect_all_categories) *)

STATUS_DB_MAX_RETRIES == 2      \* DB_MAX_RETRIES of main.py

\* the categories the run selected: scheduled, not deleted, is_processed = 0
Categories == <<"c1", "c2">>

\* the database errors the successive tries of one status update meet:
\* "operational" (OperationalError / SQLAlchemyError) or "other"
StatusFaults == SeqsUpTo({"operational", "other"}, STATUS_DB_MAX_RETRIES + 1)

\* what collect_from_category does: it returns a result dict or raises
CategoryOutcomes ==
    [kind : {"success"}, collected_products : 0..MaxCollected]
        \cup {[kind |-> "failure", collected_products |-> 0],
              [kind |-> "raise", collected_products |-> 0]}

\* update_category_status: the row of the category after the call; tries is
\* the local `retries`.  An operational error is retried until the count
\* passes DB_MAX_RETRIES, any other error ends the loop; neither reaches the
\* caller
RECURSIVE update_category_status(_, _, _, _, _, _)
update_category_status(tbl, category_id, is_processed, product_cnt, faults, tries) ==
    IF tries > STATUS_DB_MAX_RETRIES THEN tbl
    ELSE IF faults = <<>>
    THEN [tbl EXCEPT ![category_id] = [is_processed |-> is_processed,
                                       product_cnt |-> product_cnt]]
    ELSE IF Head(faults) = "operational"
    THEN update_category_status(tbl, category_id, is_processed, product_cnt,
                                Tail(faults), tries + 1)
    ELSE tbl

\* faulty variant: the status is written whatever the collection reported
ProcessCategoryMarksAlways(tbl, failed_categories, category_id, outcome, faults) ==
    [categories |-> update_category_status(tbl, category_id, 1,
                                           outcome.collected_products, faults, 0),
     failed_categories |-> IF outcome.kind = "success" THEN failed_categories
                           ELSE Append(failed_categories, category_id),
     success |-> outcome.kind = "success"]

\* process_category: the category table and the failure list after the call,
\* and the 'success' of the result it returns
process_category(tbl, failed_categories, category_id, outcome, faults) ==
    IF outcome.kind = "success"
    THEN [categories |-> update_category_status(tbl, category_id, 1,
                                                outcome.collected_products, faults, 0),
          failed_categories |-> failed_categories,
          success |-> TRUE]
    ELSE [categories |-> tbl,
          failed_categories |-> Append(failed_categories, category_id),
          success |-> FALSE]

\* asked: what collect_from_category did and what the database did to the
\* status update, per category handled so far
NewRun ==
    [pc |-> "loop", i |-> 1,
     categories |-> [c \in Range(Categories) |-> [is_processed |-> 0, product_cnt |-> 0]],
     failed_categories |-> <<>>, results |-> <<>>, asked |-> <<>>]

---------------------------------------------------------------------------
(* Values of the variables a specification does not use *)

NoPreviousWeek == [year |-> 0, week |-> 0, asked |-> FALSE, prev |-> <<0, 0>>]

NoSession == [pc |-> "off"]

NoCrawl == [pc |-> "off"]

NoRanking == [pc |-> "off"]

NoDetail == [pc |-> "off"]

NoRun == [pc |-> "off"]

NoSweeps == [pc |-> "off"]

NoWriters == [pc |-> "off"]

AuxIdle ==
    /\ dbop = NoDbOperation
    /\ iso = NoPreviousWeek
    /\ sess = NoSession
    /\ crawl = NoCrawl
    /\ rank = NoRanking
    /\ prod = NoDetail
    /\ run = NoRun
    /\ sweeps = NoSweeps
    /\ writers = NoWriters

---------------------------------------------------------------------------
(* Actions *)

StoreInit ==
    /\ today \in DOMAIN Days
    /\ history = {}
    /\ brands = {}
    /\ brandSeq = 0
    /\ calls = 0
    /\ last = NoCall
    /\ catalog = {"g1", "g2"}
    /\ retries = <<>>
    /\ sweep = Idle
    /\ AuxIdle

RetryInit ==
    /\ today = 2
    /\ history = CollectedLastWeek
    /\ brands = {[id |-> 7, name |-> "B"], [id |-> 8, name |-> "A"]}
    /\ brandSeq = 8
    /\ calls = 0
    /\ last = NoCall
    /\ catalog = {"g1", "g2"}
    /\ retries = LeftFromLastWeek
    /\ sweep = Idle
    /\ AuxIdle

\* the calendar moves on to the next day of Days
Tick ==
    /\ today < Len(Days)
    /\ today' = today + 1
    /\ UNCHANGED <<history, brands, brandSeq, calls, last, retryVars, auxVars>>

\* one call of _save_to_history_table(products, None, target_year, target_week)
AppendSnapshot ==
    \E products \in Batches, target \in Targets,
       brandFault \in {{}, BrandNames}, insertFault \in BOOLEAN :
        /\ calls < MaxCalls
        /\ LET out == SaveToHistoryTable(history, brands, brandSeq, products,
                                         Days[today], target[1], target[2],
                                         brandFault, insertFault)
           IN  /\ history' = out.history
               /\ brands' = out.brands
               /\ brandSeq' = out.seq
               /\ last' = CallRecord("append", 0, products, Days[today],
                                     target[1], target[2], brandFault, insertFault,
                                     out, history, last)
        /\ calls' = calls + 1
        /\ UNCHANGED <<today, retryVars, auxVars>>

\* RetryManager.process_missing_products up to the first rank collection:
\* gap detection, _create_retry_records and the queue select
ProcessMissingProducts ==
    /\ sweep.pc = "idle"
    /\ \E findFault \in BOOLEAN :
        LET cur == get_current_iso_week(Days[today])
            prev == get_previous_iso_week(cur[1], cur[2])
            missing == IF findFault THEN {}
                       ELSE find_missing_products(history, brands, catalog,
                                                  prev[1], prev[2], cur[1], cur[2])
            missing_products == InScanOrder(missing, 1)
        IN    IF missing_products = <<>>
              THEN UNCHANGED <<retries, sweep>>
              ELSE LET tbl == create_retry_records(retries, missing_products, cur[1], cur[2])
                       items == retry_items(tbl, cur[1], cur[2])
                   IN  /\ retries' = tbl
                       /\ sweep' = IF items = <<>> THEN Idle
                                   ELSE [Idle EXCEPT !.pc = "rank",
                                                     !.target_year = cur[1],
                                                     !.target_week = cur[2],
                                                     !.groups = GroupByCat(tbl, items, <<>>),
                                                     !.ci = 1,
                                                     !.details = missing]
    /\ UNCHANGED <<today, storeVars, calls, catalog, auxVars>>

\* lines 247-277: the two collect_rankings calls of the current category
CollectRankings ==
    /\ sweep.pc = "rank"
    /\ LET group == sweep.groups[sweep.ci]
           goods_set == {retries[i].goods_no : i \in Range(group.items)}
       IN  \E outcome \in {"pop_empty", "sales_empty", "raise", "ok"},
              pop_found \in {goods_set}, sales_found \in {goods_set} :
             LET heard == [sweep EXCEPT !.signal = outcome]
             IN
             \/ /\ outcome \in {"pop_empty", "sales_empty"}
                /\ retries' = mark_category_products_as_deleted(retries, group.items)
                /\ sweep' = NextCategory(heard)
             \/ /\ outcome = "raise"
                /\ retries' = retries
                /\ sweep' = NextCategory(heard)
             \/ /\ outcome = "ok"
                /\ retries' = retries
                /\ sweep' = [heard EXCEPT !.pc = "claim", !.ii = 1,
                                          !.pop_found = pop_found,
                                          !.sales_found = sales_found]
    /\ UNCHANGED <<today, storeVars, calls, catalog, auxVars>>

\* lines 283-292: the next item of the category is marked processing
ClaimItem ==
    /\ sweep.pc = "claim"
    /\ LET it == sweep.groups[sweep.ci].items[sweep.ii]
       IN  retries' = [retries EXCEPT ![it] = ClaimTask(@)]
    /\ sweep' = [sweep EXCEPT !.pc = "attempt"]
    /\ UNCHANGED <<today, storeVars, calls, catalog, auxVars>>

\* the product dict collect_and_save_single_product hands to save_products
RetryProduct(goods_no, disp_cat_no, page_brand, brandId, rankings) ==
    [goods_no |-> goods_no, disp_cat_no |-> disp_cat_no, brand |-> page_brand,
     brandId |-> brandId,
     popularity_rank |-> rankings.popularity_rank,
     sales_rank |-> rankings.sales_rank]

\* the cached brand id of a missing product (lines 302-303)
DetailsBrandId(details, goods_no, cat_id) ==
    IF \E p \in details : p.goods_no = goods_no /\ p.disp_cat_no = cat_id
    THEN (CHOOSE p \in details : p.goods_no = goods_no /\ p.disp_cat_no = cat_id).brandId
    ELSE None

\* lines 294-373: collect_and_save_single_product and the status it leaves.
\* detail is what the collector call does: "raise" (the call raises),
\* "deleted", "none" (no detail record) or "ok"; api is what the batch POST of
\* save_products does: "raise", "error" or "success".
AttemptItem ==
    /\ sweep.pc = "attempt"
    /\ \E detail \in {"raise", "deleted", "none", "ok"},
          api \in {"raise", "error", "success"},
          brandFault \in {{}}, insertFault \in BOOLEAN :
        LET group == sweep.groups[sweep.ci]
            it == group.items[sweep.ii]
            task == retries[it]
            rankings == [popularity_rank |-> RankOf(task.goods_no, sweep.pop_found),
                         sales_rank |-> RankOf(task.goods_no, sweep.sales_found)]
            brand_id == DetailsBrandId(sweep.details, task.goods_no, group.cat_id)
            product == RetryProduct(task.goods_no, group.cat_id, "A", brand_id, rankings)
            saves == detail = "ok" /\ api # "raise"
            out == SaveToHistoryTable(history, brands, brandSeq, <<product>>,
                                      Days[today], sweep.target_year, sweep.target_week,
                                      brandFault, insertFault)
            result == IF detail = "raise" THEN "raise"
                      ELSE IF detail = "deleted" THEN "deleted"
                      ELSE IF detail = "ok" /\ api = "success" THEN "true"
                      ELSE "false"
        IN  /\ (detail # "ok") => (api = "success")
            /\ (~saves) => (brandFault = {} /\ ~insertFault)
            /\ IF saves
               THEN /\ history' = out.history
                    /\ brands' = out.brands
                    /\ brandSeq' = out.seq
                    /\ last' = last
               ELSE UNCHANGED storeVars
            /\ retries' = [retries EXCEPT ![it].status = StatusAfter(task, result)]
            /\ sweep' = IF sweep.ii < Len(group.items)
                        THEN [sweep EXCEPT !.pc = "claim", !.ii = @ + 1]
                        ELSE NextCategory(sweep)
    /\ UNCHANGED <<today, calls, catalog, auxVars>>

StoreNext == AppendSnapshot

StoreSpec == StoreInit /\ [][StoreNext]_vars

RetryNext == Tick \/ ProcessMissingProducts \/ CollectRankings \/ ClaimItem \/ AttemptItem

RetrySpec == RetryInit /\ [][RetryNext]_vars

---------------------------------------------------------------------------
(* Decorated database calls *)

DbInit ==
    /\ today = 1
    /\ history = {}
    /\ brands = {}
    /\ brandSeq = 0
    /\ calls = 0
    /\ last = NoCall
    /\ catalog = {}
    /\ retries = <<>>
    /\ sweep = Idle
    /\ AuxIdle

\* one call of a decorated function; the database raises faults[i] in run i
DbOperation ==
    /\ \E func \in DecoratedFunctions, faults \in [1..DB_MAX_RETRIES -> DbFaults] :
          dbop' = retry_db_operation(func, faults, 1, <<>>)
    /\ UNCHANGED <<today, storeVars, calls, retryVars, iso, sess, crawl, rank, prod, run, sweeps, writers>>

DbNext == DbOperation

DbSpec == DbInit /\ [][DbNext]_vars

---------------------------------------------------------------------------
(* get_previous_iso_week over the valid ISO weeks *)

\* number of ISO weeks of ISO year y
WeeksInYear(y) == (IsoWeek1Monday(y + 1) - IsoWeek1Monday(y)) \div 7

IsoInit ==
    /\ today = 1
    /\ history = {}
    /\ brands = {}
    /\ brandSeq = 0
    /\ calls = 0
    /\ last = NoCall
    /\ catalog = {}
    /\ retries = <<>>
    /\ sweep = Idle
    /\ dbop = NoDbOperation
    /\ sess = NoSession
    /\ crawl = NoCrawl
    /\ rank = NoRanking
    /\ prod = NoDetail
    /\ run = NoRun
    /\ sweeps = NoSweeps
    /\ writers = NoWriters
    /\ \E y \in FirstYear..LastYear : \E w \in 1..WeeksInYear(y) :
          iso = [NoPreviousWeek EXCEPT !.year = y, !.week = w]

PreviousWeek ==
    /\ ~iso.asked
    /\ iso' = [iso EXCEPT !.asked = TRUE,
                          !.prev = get_previous_iso_week(iso.year, iso.week)]
    /\ UNCHANGED <<today, storeVars, calls, retryVars, dbop, sess, crawl, rank, prod, run, sweeps, writers>>

IsoNext == PreviousWeek

IsoSpec == IsoInit /\ [][IsoNext]_vars

---------------------------------------------------------------------------
(* A collector session and its requests *)

SessInit ==
    /\ today = 1
    /\ history = {}
    /\ brands = {}
    /\ brandSeq = 0
    /\ calls = 0
    /\ last = NoCall
    /\ catalog = {}
    /\ retries = <<>>
    /\ sweep = Idle
    /\ dbop = NoDbOperation
    /\ iso = NoPreviousWeek
    /\ crawl = NoCrawl
    /\ rank = NoRanking
    /\ prod = NoDetail
    /\ run = NoRun
    /\ sweeps = NoSweeps
    /\ writers = NoWriters
    /\ \E variant \in Variants, token \in BOOLEAN, use_proxy \in BOOLEAN :
          /\ (variant = "plain") => ~use_proxy
          /\ sess = NewSession(variant, token, use_proxy)

\* __init__ with _init_cookies: the token check and the visit of the landing
\* page through _get_with_delay (not through _retry_request)
Construct ==
    /\ sess.pc = "new"
    /\ \E response \in Responses :
        LET px == ProxyFor(sess) IN
        \E proxy \in px.choices :
          IF sess.variant = "plain" /\ ~sess.token
          THEN /\ response = 200
               /\ proxy = ""
               /\ sess' = [sess EXCEPT !.pc = "dead"]
          ELSE sess' = [sess EXCEPT
                  !.pc = IF sess.variant = "plain" /\ Raises("plain", "GET", response)
                         THEN "dead" ELSE "ready",
                  !.events = Sent(sess.variant, "GET", proxy, response),
                  !.failed = px.failed,
                  !.current_proxy = IF Raises(sess.variant, "GET", response)
                                    THEN ProxyAfter(sess, proxy, response)
                                    ELSE proxy]
    /\ UNCHANGED <<today, storeVars, calls, retryVars, dbop, iso, crawl, rank, prod, run, sweeps, writers>>

\* a collector method enters _retry_request with one of its request functions
BeginRequest ==
    /\ sess.pc = "ready"
    /\ \E request \in Requests :
          sess' = [sess EXCEPT !.pc = "calling", !.request = request, !.attempt = 1,
                               !.events = <<>>, !.outcome = "", !.result = None]
    /\ UNCHANGED <<today, storeVars, calls, retryVars, dbop, iso, crawl, rank, prod, run, sweeps, writers>>

\* one round of the loop of _retry_request: func() and, when it raises, the
\* except clause with its backoff
Attempt ==
    /\ sess.pc = "calling"
    /\ \E response \in Responses, jitter \in {"lo", "hi"} :
        LET method == sess.request.method
            px == ProxyFor(sess)
        IN
        \E proxy \in px.choices :
          LET sent == sess.events \o Sent(sess.variant, method, proxy, response)
              raises == Raises(sess.variant, method, response)
              rate_limited == sess.variant = "curl" /\ TextSaysRateLimit(sess.request, response)
              backoff == Backoff(sess.variant, sess.attempt, rate_limited, jitter)
              slept == Append(sent, Ev("sleep", "", 0, backoff, rate_limited))
              after == [sess EXCEPT !.failed = px.failed,
                                    !.current_proxy = IF raises
                                                      THEN ProxyAfter(sess, proxy, response)
                                                      ELSE proxy]
          IN  IF ~raises
              THEN /\ jitter = "lo"
                   /\ sess' = [after EXCEPT !.pc = "ready", !.events = sent,
                                            !.outcome = "returned", !.result = response]
              ELSE IF GivesUp(sess.attempt, MAX_RETRY)
              THEN /\ jitter = "lo"
                   /\ sess' = [after EXCEPT !.pc = "ready", !.events = sent,
                                            !.outcome = "raised", !.result = response]
              ELSE IF sess.attempt < MAX_RETRY
              THEN sess' = [after EXCEPT !.events = slept, !.attempt = @ + 1]
              ELSE \* the loop ends without a return statement
                   sess' = [after EXCEPT !.pc = "ready", !.events = slept,
                                         !.outcome = "returned", !.result = None]
    /\ UNCHANGED <<today, storeVars, calls, retryVars, dbop, iso, crawl, rank, prod, run, sweeps, writers>>

SessNext == Construct \/ BeginRequest \/ Attempt

SessSpec == SessInit /\ [][SessNext]_vars

---------------------------------------------------------------------------
(* One collect_from_category run *)

CrawlInit ==
    /\ today = 1
    /\ history = {}
    /\ brands = {}
    /\ brandSeq = 0
    /\ calls = 0
    /\ last = NoCall
    /\ catalog = {}
    /\ retries = <<>>
    /\ sweep = Idle
    /\ dbop = NoDbOperation
    /\ iso = NoPreviousWeek
    /\ sess = NoSession
    /\ crawl = NewCrawl
    /\ rank = NoRanking
    /\ prod = NoDetail
    /\ run = NoRun
    /\ sweeps = NoSweeps
    /\ writers = NoWriters

\* lines 477-507: the two collect_goods_numbers calls and the set-up of the loop
StartCategory ==
    /\ crawl.pc = "start"
    /\ \E pop \in SeqsUpTo(Listed, MaxListed), sales \in SeqsUpTo(Listed, MaxSales) :
          IF pop = <<>>
          THEN /\ sales = <<>>
               /\ crawl' = [crawl EXCEPT !.pc = "done"]
          ELSE crawl' = [crawl EXCEPT !.pc = "loop",
                                      !.popularity_goods_numbers = pop,
                                      !.sales_goods_numbers = sales,
                                      !.i = 1]
    /\ UNCHANGED <<today, storeVars, calls, retryVars, dbop, iso, sess, rank, prod, run, sweeps, writers>>

\* lines 509-551: one round of the loop over popularity_goods_numbers; detail
\* is what collect_product_detail returns ("ok" a record, "deleted", "none"),
\* status what save_products answers when this round flushes
ProcessListed ==
    /\ crawl.pc = "loop"
    /\ crawl.i <= Len(crawl.popularity_goods_numbers)
    /\ \E detail \in {"ok", "deleted", "none"}, status \in {"success", "error"} :
        LET goods_no == crawl.popularity_goods_numbers[crawl.i]
            product == CrawlRecord(goods_no, "c1", crawl.i, crawl.collected_products,
                                   SalesRankMap(crawl.sales_goods_numbers))
            batch == Append(crawl.products_batch, product)
        IN  IF detail # "ok"
            THEN /\ status = "success"
                 /\ crawl' = [crawl EXCEPT !.i = @ + 1]
            ELSE IF BatchFull(batch)
            THEN crawl' = [crawl EXCEPT
                     !.i = @ + 1,
                     !.collected = Append(@, product),
                     !.collected_products = @ + 1,
                     !.flushes = Append(@, batch),
                     !.saved_products = IF status = "success" THEN @ + Len(batch) ELSE @,
                     !.products_batch = <<>>]
            ELSE /\ status = "success"
                 /\ crawl' = [crawl EXCEPT
                       !.i = @ + 1,
                       !.collected = Append(@, product),
                       !.collected_products = @ + 1,
                       !.products_batch = batch]
    /\ UNCHANGED <<today, storeVars, calls, retryVars, dbop, iso, sess, rank, prod, run, sweeps, writers>>

\* lines 553-571: the remainder is flushed and the result returned
FinishCategory ==
    /\ crawl.pc = "loop"
    /\ crawl.i > Len(crawl.popularity_goods_numbers)
    /\ \E status \in {"success", "error"} :
          IF crawl.products_batch # <<>>
          THEN crawl' = [crawl EXCEPT
                   !.pc = "done",
                   !.flushes = Append(@, crawl.products_batch),
                   !.saved_products = IF status = "success"
                                      THEN @ + Len(crawl.products_batch) ELSE @]
          ELSE /\ status = "success"
               /\ crawl' = [crawl EXCEPT !.pc = "done"]
    /\ UNCHANGED <<today, storeVars, calls, retryVars, dbop, iso, sess, rank, prod, run, sweeps, writers>>

CrawlNext == StartCategory \/ ProcessListed \/ FinishCategory

CrawlSpec == CrawlInit /\ [][CrawlNext]_vars

---------------------------------------------------------------------------
(* The rank step of one category group *)

RankInit ==
    /\ today = 1
    /\ history = {}
    /\ brands = {}
    /\ brandSeq = 0
    /\ calls = 0
    /\ last = NoCall
    /\ catalog = {}
    /\ retries = <<>>
    /\ sweep = Idle
    /\ dbop = NoDbOperation
    /\ iso = NoPreviousWeek
    /\ sess = NoSession
    /\ crawl = NoCrawl
    /\ prod = NoDetail
    /\ run = NoRun
    /\ sweeps = NoSweeps
    /\ writers = NoWriters
    /\ \E collector \in Variants, target_goods \in (SUBSET Listed) \ {{}} :
          rank = NewRanking(collector, target_goods)

\* manager.py 250-258: the popularity-sorted rank collection
CollectPopularityRanks ==
    /\ rank.pc = "pop"
    /\ IF ~Supports(rank.collector, "collect_rankings")
       THEN rank' = [rank EXCEPT !.pc = "done", !.verdict = "skipped"]
       ELSE \E pages \in Listings :
              LET pop_rankings == collect_rankings(pages, rank.target_goods) IN
              rank' = [rank EXCEPT
                  !.pop_first = [fetch |-> pages[1].fetch, count |-> pages[1].count],
                  !.pop_rankings = pop_rankings,
                  !.pc = IF CategoryEmpty(pop_rankings) THEN "done" ELSE "sales",
                  !.verdict = IF CategoryEmpty(pop_rankings) THEN "deleted" ELSE ""]
    /\ UNCHANGED <<today, storeVars, calls, retryVars, dbop, iso, sess, crawl, prod, run, sweeps, writers>>

\* manager.py 263-273: the sales-sorted rank collection
CollectSalesRanks ==
    /\ rank.pc = "sales"
    /\ \E pages \in Listings :
          LET sales_rankings == collect_rankings(pages, rank.target_goods) IN
          rank' = [rank EXCEPT
              !.sales_first = [fetch |-> pages[1].fetch, count |-> pages[1].count],
              !.sales_rankings = sales_rankings,
              !.pc = "done",
              !.verdict = IF CategoryEmpty(sales_rankings) THEN "deleted" ELSE "items"]
    /\ UNCHANGED <<today, storeVars, calls, retryVars, dbop, iso, sess, crawl, prod, run, sweeps, writers>>

RankNext == CollectPopularityRanks \/ CollectSalesRanks

RankSpec == RankInit /\ [][RankNext]_vars

---------------------------------------------------------------------------
(* One category listing read by collect_goods_numbers and by collect_rankings *)

ListingInit ==
    /\ today = 1
    /\ history = {}
    /\ brands = {}
    /\ brandSeq = 0
    /\ calls = 0
    /\ last = NoCall
    /\ catalog = {}
    /\ retries = <<>>
    /\ sweep = Idle
    /\ dbop = NoDbOperation
    /\ iso = NoPreviousWeek
    /\ sess = NoSession
    /\ crawl = NoCrawl
    /\ prod = NoDetail
    /\ run = NoRun
    /\ sweeps = NoSweeps
    /\ writers = NoWriters
    /\ \E target_goods \in (SUBSET Listed) \ {{}} : rank = NewListing(target_goods)

\* the site answers the page requests of the category under one sort order
ServeListing ==
    /\ rank.pc = "listing"
    /\ \E pages \in Listings : rank' = [rank EXCEPT !.pc = "served", !.pages = pages]
    /\ UNCHANGED <<today, storeVars, calls, retryVars, dbop, iso, sess, crawl, prod, run, sweeps, writers>>

\* both primitives read the listing
ReadListing ==
    /\ rank.pc = "served"
    /\ rank' = [rank EXCEPT !.pc = "read",
                            !.goods_numbers = collect_goods_numbers(rank.pages),
                            !.rankings = collect_rankings(rank.pages, rank.target_goods)]
    /\ UNCHANGED <<today, storeVars, calls, retryVars, dbop, iso, sess, crawl, prod, run, sweeps, writers>>

ListingNext == ServeListing \/ ReadListing

ListingSpec == ListingInit /\ [][ListingNext]_vars

---------------------------------------------------------------------------
(* One collection run over the selected categories *)

RunInit ==
    /\ today = 1
    /\ history = {}
    /\ brands = {}
    /\ brandSeq = 0
    /\ calls = 0
    /\ last = NoCall
    /\ catalog = {}
    /\ retries = <<>>
    /\ sweep = Idle
    /\ dbop = NoDbOperation
    /\ iso = NoPreviousWeek
    /\ sess = NoSession
    /\ crawl = NoCrawl
    /\ rank = NoRanking
    /\ prod = NoDetail
    /\ sweeps = NoSweeps
    /\ writers = NoWriters
    /\ run = NewRun

\* one round of the loop over the categories: process_category(category)
ProcessCategory ==
    /\ run.pc = "loop"
    /\ run.i <= Len(Categories)
    /\ \E outcome \in CategoryOutcomes, faults \in StatusFaults :
          LET category_id == Categories[run.i]
              out == process_category(run.categories, run.failed_categories,
                                      category_id, outcome, faults)
          IN  /\ (outcome.kind # "success") => (faults = <<>>)
              /\ run' = [run EXCEPT
                    !.i = @ + 1,
                    !.categories = out.categories,
                    !.failed_categories = out.failed_categories,
                    !.results = Append(@, out.success),
                    !.asked = Append(@, [outcome |-> outcome, faults |-> faults])]
    /\ UNCHANGED <<today, storeVars, calls, retryVars, dbop, iso, sess, crawl, rank, prod, sweeps, writers>>

\* the loop is through: the summary is logged and the failure list saved
FinishRun ==
    /\ run.pc = "loop"
    /\ run.i > Len(Categories)
    /\ run' = [run EXCEPT !.pc = "done"]
    /\ UNCHANGED <<today, storeVars, calls, retryVars, dbop, iso, sess, crawl, rank, prod, sweeps, writers>>

RunNext == ProcessCategory \/ FinishRun

RunSpec == RunInit /\ [][RunNext]_vars

---------------------------------------------------------------------------
(* One listed product from its detail page to the store *)

DetailInit ==
    /\ today = 1
    /\ history = {}
    /\ brands = {}
    /\ brandSeq = 0
    /\ calls = 0
    /\ last = NoCall
    /\ catalog = {}
    /\ retries = <<>>
    /\ sweep = Idle
    /\ dbop = NoDbOperation
    /\ iso = NoPreviousWeek
    /\ sess = NoSession
    /\ crawl = NoCrawl
    /\ rank = NoRanking
    /\ run = NoRun
    /\ sweeps = NoSweeps
    /\ writers = NoWriters
    /\ \E goods_no \in Listed : prod = NewDetail(goods_no)

\* collect_from_category 513: collect_product_detail(goods_no)
CollectDetail ==
    /\ prod.pc = "detail"
    /\ \E page \in DetailPages :
          prod' = [prod EXCEPT !.pc = "loop", !.page = page,
                                   !.product = collect_product_detail(page, prod.goods_no)]
    /\ UNCHANGED <<today, storeVars, calls, retryVars, dbop, iso, sess, crawl, rank, run, sweeps, writers>>

\* collect_from_category 515-535: a record gets the category id and joins the
\* batch; None and 'deleted' are passed over
BatchDetail ==
    /\ prod.pc = "loop"
    /\ prod' = [prod EXCEPT
          !.pc = "flush",
          !.products_batch =
              IF IsRecord(prod.product)
              THEN Append(@, [goods_no |-> prod.product.info.goods_no,
                              disp_cat_no |-> "c1",
                              brand |-> prod.product.info.brand,
                              name |-> prod.product.info.name,
                              price |-> prod.product.info.price])
              ELSE @]
    /\ UNCHANGED <<today, storeVars, calls, retryVars, dbop, iso, sess, crawl, rank, run, sweeps, writers>>

\* collect_from_category 554-561 with save_products: the batch, when it is not
\* empty, is handed to save_products, which posts it (api) and appends it to
\* the history table (insertFault: the bulk insert fails)
FlushDetail ==
    /\ prod.pc = "flush"
    /\ \E api \in {"success", "error"}, insertFault \in BOOLEAN :
          IF prod.products_batch = <<>>
          THEN /\ api = "success" /\ ~insertFault
               /\ prod' = [prod EXCEPT !.pc = "done"]
          ELSE prod' = [prod EXCEPT
                  !.pc = "done",
                  !.passed = prod.products_batch,
                  !.rows = IF insertFault THEN {}
                           ELSE {SnapshotRow(prod.products_batch[k]) :
                                    k \in DOMAIN prod.products_batch},
                  !.status = api]
    /\ UNCHANGED <<today, storeVars, calls, retryVars, dbop, iso, sess, crawl, rank, run, sweeps, writers>>

DetailNext == CollectDetail \/ BatchDetail \/ FlushDetail

DetailSpec == DetailInit /\ [][DetailNext]_vars

---------------------------------------------------------------------------
(* The reconciliation engine with two products missing, with runs that stop
   in the middle of a task, and with sweeps that keep being run *)

\* last week's collection of one category
TwoCollectedLastWeek ==
    {PrevWeekRow("g1", "c1", 7, 5), PrevWeekRow("g2", "c1", None, 50)}

QueueInit ==
    /\ today = 2
    /\ history = TwoCollectedLastWeek
    /\ brands = {[id |-> 7, name |-> "B"], [id |-> 8, name |-> "A"]}
    /\ brandSeq = 8
    /\ calls = 0
    /\ last = NoCall
    /\ catalog = {"g1", "g2"}
    /\ retries = LeftFromLastWeek
    /\ sweep = Idle
    /\ AuxIdle

\* the process ends between the commit of line 292 and the commit that records
\* the result (lines 328-370): the claimed task stays processing
StopMidTask ==
    /\ sweep.pc = "attempt"
    /\ sweep' = [Idle EXCEPT !.signal = sweep.signal]
    /\ UNCHANGED <<today, storeVars, calls, retries, catalog, auxVars>>

CrashNext == RetryNext \/ StopMidTask

CrashSpec == QueueInit /\ [][CrashNext]_vars

\* the calendar moves on and sweeps keep being run: a step is taken whenever
\* one is possible
QueueFairSpec == QueueInit /\ [][RetryNext]_vars /\ WF_vars(RetryNext)

---------------------------------------------------------------------------
(* The reconciliation engine on a brand table that does not hold the brand
   name the product pages carry *)

BrandInit ==
    /\ today = 2
    /\ history = TwoCollectedLastWeek
    /\ brands = {[id |-> 7, name |-> "B"]}
    /\ brandSeq = 7
    /\ calls = 0
    /\ last = NoCall
    /\ catalog = {"g1", "g2"}
    /\ retries = LeftFromLastWeek
    /\ sweep = Idle
    /\ AuxIdle

BrandSpec == BrandInit /\ [][RetryNext]_vars

---------------------------------------------------------------------------
(* Two process_missing_products calls on one database.  Each call runs in its
   own session: the select of _create_retry_records and its bulk insert are
   two statements, and the retry table has no unique key besides retry_id *)

Sweepers == {1, 2}

\* lines 105-131 of _create_retry_records: the table after the bulk insert of
\* the records whose key was not among the keys read before
insert_new_retry_records(tbl, existing_records, missing_products, target_year, target_week) ==
    LET fresh == SelectSeq(missing_products,
                           LAMBDA p : <<p.goods_no, p.disp_cat_no>> \notin existing_records)
    IN  tbl \o [i \in DOMAIN fresh |-> NewRetryRecord(fresh[i], target_year, target_week)]

NewSweeper == [pc |-> "start", missing_products |-> <<>>, existing_records |-> {}]

SweepsInit ==
    /\ today = 2
    /\ history \in (SUBSET CollectedLastWeek) \ {{}}
    /\ brands = {[id |-> 7, name |-> "B"], [id |-> 8, name |-> "A"]}
    /\ brandSeq = 8
    /\ calls = 0
    /\ last = NoCall
    /\ catalog = {"g1", "g2"}
    /\ retries \in {<<>>, LeftFromLastWeek}
    /\ sweep = Idle
    /\ dbop = NoDbOperation
    /\ iso = NoPreviousWeek
    /\ sess = NoSession
    /\ crawl = NoCrawl
    /\ rank = NoRanking
    /\ prod = NoDetail
    /\ run = NoRun
    /\ writers = NoWriters
    /\ sweeps = [p \in Sweepers |-> NewSweeper]

\* manager.py 44-103 of sweep p: gap detection and the select of the keys the
\* retry table holds for the target week
SweepReadsKeys(p) ==
    /\ sweeps[p].pc = "start"
    /\ LET cur == get_current_iso_week(Days[today])
           prev == get_previous_iso_week(cur[1], cur[2])
           missing == find_missing_products(history, brands, catalog,
                                            prev[1], prev[2], cur[1], cur[2])
           missing_products == InScanOrder(missing, 1)
       IN  sweeps' = [sweeps EXCEPT ![p] =
              [pc |-> IF missing_products = <<>> THEN "done" ELSE "read",
               missing_products |-> missing_products,
               existing_records |-> IF missing_products = <<>> THEN {}
                                    ELSE ExistingRetryKeys(retries, cur[1], cur[2])]]
    /\ UNCHANGED <<today, storeVars, calls, retryVars, dbop, iso, sess, crawl, rank, prod, run, writers>>

\* manager.py 105-134 of sweep p: the bulk insert of the new records
SweepInsertsRecords(p) ==
    /\ sweeps[p].pc = "read"
    /\ LET cur == get_current_iso_week(Days[today]) IN
       retries' = insert_new_retry_records(retries, sweeps[p].existing_records,
                                           sweeps[p].missing_products, cur[1], cur[2])
    /\ sweeps' = [sweeps EXCEPT ![p].pc = "done"]
    /\ UNCHANGED <<today, storeVars, calls, catalog, sweep, dbop, iso, sess, crawl, rank, prod, run, writers>>

SweepsNext == \E p \in Sweepers : SweepReadsKeys(p) \/ SweepInsertsRecords(p)

SweepsSpec == SweepsInit /\ [][SweepsNext]_vars

---------------------------------------------------------------------------
(* Two _save_to_history_table calls on one database: the flush of a full
   collection and the append of a retry.  Each call runs in its own session;
   the lookup of the stored keys and the bulk insert are two statements, and
   the primary key of the table rejects the second insert of a key *)

Writers == {"flush", "retry"}

\* the records the two calls are handed: no brand name, no brand reference
WriterProduct(goods_no) ==
    [goods_no |-> goods_no, disp_cat_no |-> "c1", brand |-> "", brandId |-> None,
     popularity_rank |-> 1, sales_rank |-> 1]

\* a flush of up to MaxBatch different products; a retry of one product
FlushBatches ==
    {b \in SeqsUpTo({WriterProduct(g) : g \in {"g1", "g2", "g3"}}, MaxBatch) :
        /\ b # <<>>
        /\ \A i, j \in DOMAIN b : (b[i] = b[j]) => (i = j)}

RetryBatches == {<<WriterProduct(g)>> : g \in {"g1", "g2"}}

\* lines 148-181: the keys of the batch the table holds already
keys_read(tbl, products, collection_date, target_year, target_week) ==
    LET year == EffectiveYear(collection_date, target_year)
        week_of_year == EffectiveWeek(collection_date, target_week)
        valid == ValidProducts(products)
    IN  ExistingKeys(tbl, {<<valid[i].goods_no, valid[i].disp_cat_no>> : i \in DOMAIN valid},
                     year, week_of_year)

\* lines 183-267: the filter loop over the keys read before and the bulk
\* insert into the table as it is now
insert_unread(tbl, existing_keys, products, collection_date, target_year, target_week) ==
    LET year == EffectiveYear(collection_date, target_year)
        week_of_year == EffectiveWeek(collection_date, target_week)
        st == FilterAndResolve(ValidProducts(products), existing_keys, collection_date,
                               year, week_of_year, {},
                               [brands |-> {}, seq |-> 0, cache |-> <<>>,
                                broken |-> FALSE, brand_id |-> None,
                                records_to_insert |-> <<>>, skipped_count |-> 0])
    IN  IF st.records_to_insert = <<>> THEN [history |-> tbl, result |-> TRUE]
        ELSE IF BulkSaveFails(tbl, st.records_to_insert, st.broken, FALSE)
        THEN [history |-> tbl, result |-> FALSE]
        ELSE [history |-> bulk_save_objects(tbl, st.records_to_insert), result |-> TRUE]

NewWriter(products, target) ==
    [pc |-> "start", products |-> products,
     target_year |-> target[1], target_week |-> target[2],
     existing_keys |-> {}, result |-> FALSE]

WritersInit ==
    /\ today \in DOMAIN Days
    /\ history = {}
    /\ brands = {}
    /\ brandSeq = 0
    /\ calls = 0
    /\ last = NoCall
    /\ catalog = {}
    /\ retries = <<>>
    /\ sweep = Idle
    /\ dbop = NoDbOperation
    /\ iso = NoPreviousWeek
    /\ sess = NoSession
    /\ crawl = NoCrawl
    /\ rank = NoRanking
    /\ prod = NoDetail
    /\ run = NoRun
    /\ sweeps = NoSweeps
    /\ \E flushed \in FlushBatches, retried \in RetryBatches :
          writers = [w \in Writers |->
                        IF w = "flush" THEN NewWriter(flushed, <<None, None>>)
                        ELSE NewWriter(retried, get_current_iso_week(Days[today]))]

\* call w looks up the keys of its batch
WriterReadsKeys(w) ==
    /\ writers[w].pc = "start"
    /\ writers' = [writers EXCEPT
          ![w].pc = "read",
          ![w].existing_keys = keys_read(history, writers[w].products, Days[today],
                                         writers[w].target_year, writers[w].target_week)]
    /\ UNCHANGED <<today, storeVars, calls, retryVars, dbop, iso, sess, crawl, rank, prod, run, sweeps>>

\* call w inserts the records whose keys it did not read, and commits
WriterInserts(w) ==
    /\ writers[w].pc = "read"
    /\ LET out == insert_unread(history, writers[w].existing_keys, writers[w].products,
                                Days[today], writers[w].target_year, writers[w].target_week)
       IN  /\ history' = out.history
           /\ writers' = [writers EXCEPT ![w].pc = "done", ![w].result = out.result]
    /\ UNCHANGED <<today, brands, brandSeq, last, calls, retryVars, dbop, iso, sess, crawl, rank, prod, run, sweeps>>

WritersNext == \E w \in Writers : WriterReadsKeys(w) \/ WriterInserts(w)

WritersSpec == WritersInit /\ [][WritersNext]_vars

---------------------------------------------------------------------------
(* Properties of the reconciliation engine (RetrySpec) *)

TaskKey(t) == <<t.goods_no, t.disp_cat_no, t.target_year, t.target_week_of_year>>

Terminal == {"success", "product_deleted", "max_retries_reached"}

EmptySignals == {"pop_empty", "sales_empty"}

\* C1: every retry task has attempt_count <= max_attempts; a task that is pending
\* or failed has attempt_count < max_attempts; a task in max_retries_reached has
\* used all its attempts and is not among the items the queue select returns.
AttemptBound ==
    \A i \in DOMAIN retries :
        LET t == retries[i] IN
        /\ t.attempt_count <= t.max_attempts
        /\ (t.status \in {"pending", "failed"}) => (t.attempt_count < t.max_attempts)
        /\ (t.status = "max_retries_reached") =>
              /\ t.attempt_count = t.max_attempts
              /\ i \notin Range(retry_items(retries, t.target_year, t.target_week_of_year))

\* C1 witness: a task has exhausted its attempts while another one still waits
\* with one attempt left
AttemptBoundWitness ==
    /\ \E i \in DOMAIN retries : retries[i].status = "max_retries_reached"
    /\ \E i \in DOMAIN retries : /\ retries[i].status = "failed"
                                 /\ retries[i].attempt_count = retries[i].max_attempts - 1

\* C2: a task is claimed only while pending or failed with attempts left, each
\* claim adds exactly one to attempt_count, a failing attempt leaves
\* max_retries_reached exactly when attempt_count = max_attempts and failed
\* otherwise, and a task in max_retries_reached is never touched again.
RetryExhaustion ==
    [][\A i \in DOMAIN retries :
          LET t == retries[i]
              u == retries'[i]
          IN  /\ (u.status = "processing" /\ t.status # "processing") =>
                    /\ t.status \in {"pending", "failed"}
                    /\ t.attempt_count < t.max_attempts
                    /\ u.attempt_count = t.attempt_count + 1
              /\ (u.attempt_count # t.attempt_count) =>
                    (u.status = "processing" /\ u.attempt_count = t.attempt_count + 1)
              /\ (t.status = "processing" /\ u.status \in {"failed", "max_retries_reached"}) =>
                    ((u.status = "max_retries_reached") <=> (t.attempt_count = t.max_attempts))
              /\ (t.status = "pending") => (t.attempt_count = 0)
              /\ (t.status = "max_retries_reached") => (u = t)]_vars

\* C2 witness: a task of the running sweep fails its third attempt
RetryExhaustionWitness ==
    \E i \in DOMAIN retries :
        /\ retries[i].status = "max_retries_reached"
        /\ retries[i].attempt_count = MAX_ATTEMPTS
        /\ retries[i].target_year = sweep.target_year
        /\ retries[i].target_week_of_year = sweep.target_week

StrictStateMachine ==
    [][\A i \in DOMAIN retries :
          LET t == retries[i]
              u == retries'[i]
          IN  (u.status # t.status) =>
                 \/ (u.status = "processing" /\ t.status \in {"pending", "failed"})
                 \/ (u.status \in {"success", "failed", "max_retries_reached", "product_deleted"}
                       /\ t.status = "processing")]_vars

\* C5 amended: processing is entered only from pending or failed; success,
\* failed and max_retries_reached only from processing; product_deleted from
\* processing, or straight from pending or failed in the step in which rank
\* collection reports the task's category empty.
StateMachine ==
    [][\A i \in DOMAIN retries :
          LET t == retries[i]
              u == retries'[i]
          IN  (u.status # t.status) =>
                 \/ (u.status = "processing" /\ t.status \in {"pending", "failed"})
                 \/ (u.status \in {"success", "failed", "max_retries_reached", "product_deleted"}
                       /\ t.status = "processing")
                 \/ /\ u.status = "product_deleted"
                    /\ t.status \in {"pending", "failed"}
                    /\ sweep.pc = "rank"
                    /\ sweep'.signal \in EmptySignals
                    /\ i \in Range(sweep.groups[sweep.ci].items)]_vars

\* C5 witness: one task was deleted by the category-empty signal without ever
\* being attempted, another one went through processing to success
StateMachineWitness ==
    /\ \E i \in DOMAIN retries : /\ retries[i].status = "product_deleted"
                                 /\ retries[i].attempt_count = 0
    /\ \E i \in DOMAIN retries : retries[i].status = "success"

\* C6: every row the attempt of a task stores carries the key (goods_no,
\* disp_cat_no, target year, target week) of that task, whatever the day of the
\* collection; the attempt stores no row under another key and removes none.
RetryWritesTargetWeek ==
    [][(sweep.pc = "attempt" /\ sweep' # sweep) =>
          LET it == sweep.groups[sweep.ci].items[sweep.ii]
              t == retries[it]
          IN  /\ history \subseteq history'
              /\ \A r \in history' \ history : RowKey(r) = TaskKey(t)]_vars

\* C6 witness: a retry stored its row on a day whose ISO week is not the
\* task's target week
RetryWritesTargetWeekWitness ==
    \E i \in DOMAIN retries :
        /\ retries[i].status = "success"
        /\ \E r \in history :
              /\ RowKey(r) = TaskKey(retries[i])
              /\ get_current_iso_week(r.collected_at) #
                    <<retries[i].target_year, retries[i].target_week_of_year>>

---------------------------------------------------------------------------
(* Properties of the History Store (StoreSpec) *)

\* the keys the latest call asked to store
RequestedKeys ==
    LET valid == ValidProducts(last.products) IN
    {<<valid[i].goods_no, valid[i].disp_cat_no,
       EffectiveYear(last.collection_date, last.target_year),
       EffectiveWeek(last.collection_date, last.target_week)>> : i \in DOMAIN valid}

StoredKeys(tbl) == {RowKey(r) : r \in tbl}

KeyedByIsoWeekOfCollection ==
    (last.op = "append" /\ last.target_year = None /\ last.target_week = None) =>
        \A r \in last.inserted :
            <<r.year, r.week_of_year>> = get_current_iso_week(last.collection_date)

\* C9: an append whose bulk insert fails leaves the table as it was before the
\* call and reports failure; an append whose keys are all stored already
\* writes nothing and reports success; a call that reports failure never
\* leaves a row behind and one that reports success stores all it inserted.
AtomicAppend ==
    (last.op = "append") =>
        /\ (last.insertFault /\ ~(RequestedKeys \subseteq StoredKeys(last.before))) =>
              (~last.result /\ history = last.before)
        /\ (RequestedKeys # {} /\ RequestedKeys \subseteq StoredKeys(last.before)) =>
              (last.result /\ history = last.before)
        /\ (~last.result) => (history = last.before /\ last.inserted = {})
        /\ last.result => (history = last.before \cup last.inserted)

\* C9 witness: the insert of a batch with one stored and one new key failed
AtomicAppendWitness ==
    /\ last.op = "append" /\ last.insertFault
    /\ RequestedKeys \cap StoredKeys(last.before) # {}
    /\ RequestedKeys \ StoredKeys(last.before) # {}
    /\ ~last.result

---------------------------------------------------------------------------
(* Properties of the decorated database calls (DbSpec) *)

\* C11 as stated: a transient error (OperationalError, TimeoutError) in a run of
\* the brand lookup or of the batch append makes the decorator run the body
\* again, up to three runs, before a failure is reported; any other database
\* error is raised to the caller after the first run.
TransientErrorsRetried ==
    (dbop.func # "") =>
        /\ (dbop.faults[1] \in TransientErrors) => (dbop.runs >= 2)
        /\ (\A i \in 1..DB_MAX_RETRIES : dbop.faults[i] \in TransientErrors) =>
              (dbop.runs = DB_MAX_RETRIES)
        /\ (dbop.faults[1] \notin TransientErrors \cup {"none"}) =>
              (dbop.runs = 1 /\ dbop.raised = dbop.faults[1])

---------------------------------------------------------------------------
(* Properties of get_previous_iso_week (IsoSpec) *)

\* C12: for a valid ISO (year Y, week w) the result is the ISO week whose
\* Monday lies seven days before the Monday of (Y, w): (Y, w-1) when w > 1,
\* and (Y-1, last week of Y-1), which is 52 or 53, when w = 1.
PreviousWeekCorrect ==
    iso.asked =>
        LET monday == IsoWeek1Monday(iso.year) + 7 * (iso.week - 1)
            py == iso.prev[1]
            pw == iso.prev[2]
        IN  /\ IsoWeek1Monday(py) + 7 * (pw - 1) = monday - 7
            /\ pw \in 1..WeeksInYear(py)
            /\ (iso.week > 1) => (iso.prev = <<iso.year, iso.week - 1>>)
            /\ (iso.week = 1) => (py = iso.year - 1 /\ pw = WeeksInYear(iso.year - 1)
                                    /\ pw \in {52, 53})

\* C12 witness: the week before week 1 is week 53 of the year before
PreviousWeekWitness ==
    iso.asked /\ iso.week = 1 /\ iso.prev[2] = 53

---------------------------------------------------------------------------
(* Properties of the collector session (SessSpec) *)

\* the requests of the log of the session, in the order they were sent
RequestsSent == SelectSeq(sess.events, LAMBDA ev : ev.e = "request")

BackoffsSlept == SelectSeq(sess.events, LAMBDA ev : ev.e = "sleep")

\* C13 as stated: every request a collector sends to the site, re-issues by
\* the retry wrapper included, comes right after a randomized pre-delay.
EveryRequestPreDelayed ==
    \A i \in DOMAIN sess.events :
        (sess.events[i].e = "request") => (i > 1 /\ sess.events[i - 1].e = "delay")

\* C14 as stated: no request goes through a proxy that was the current proxy
\* of an earlier soft-blocked request (the failed set is refreshed nowhere in
\* between: the log is that of one _retry_request call).
FailedProxyNotReused ==
    \A i \in DOMAIN sess.events :
        (/\ sess.events[i].e = "request"
         /\ sess.events[i].proxy # ""
         /\ sess.events[i].response \in SoftBlock) =>
            \A j \in DOMAIN sess.events :
                (j > i /\ sess.events[j].e = "request") =>
                    (sess.events[j].proxy # sess.events[i].proxy)

\* C15 as stated: a collector constructed without the anti-bot token is dead
\* after its constructor and has sent no request, in both variants.
TokenRequired ==
    (sess.pc \notin {"off", "new"} /\ ~sess.token) =>
        (sess.pc = "dead" /\ sess.events = <<>>)

\* C16: _retry_request calls the request function at most max_retry times
\* and sleeps one backoff between two calls; when it returns, the last call
\* is the only one that did not raise and its response is the result; when
\* it raises, max_retry calls were made, all raised, and the error is that of
\* the last call.
RetryRequestBounded ==
    /\ (sess.pc = "calling") =>
          /\ sess.attempt \in 1..MAX_RETRY
          /\ Len(RequestsSent) = sess.attempt - 1
          /\ Len(BackoffsSlept) = sess.attempt - 1
    /\ (sess.pc = "ready" /\ sess.outcome # "") =>
          LET n == Len(RequestsSent) IN
          /\ n \in 1..MAX_RETRY
          /\ Len(BackoffsSlept) = n - 1
          /\ sess.events[Len(sess.events)].e = "request"
          /\ \A i \in DOMAIN sess.events :
                (sess.events[i].e = "sleep") =>
                    (/\ i > 1 /\ i < Len(sess.events)
                     /\ sess.events[i - 1].e = "request"
                     /\ sess.events[i + 1].e \in {"delay", "request"})
          /\ \A k \in 1..(n - 1) :
                Raises(sess.variant, sess.request.method, RequestsSent[k].response)
          /\ (sess.outcome = "returned") =>
                /\ sess.result # None
                /\ sess.result = RequestsSent[n].response
                /\ ~Raises(sess.variant, sess.request.method, sess.result)
          /\ (sess.outcome = "raised") =>
                /\ n = MAX_RETRY
                /\ sess.result = RequestsSent[n].response
                /\ Raises(sess.variant, sess.request.method, sess.result)

\* C16 witness: three calls raised, two backoffs were slept, the error of the
\* third call reached the caller
RetryRequestWitness ==
    /\ sess.pc = "ready" /\ sess.outcome = "raised"
    /\ Len(RequestsSent) = MAX_RETRY
    /\ Len(BackoffsSlept) = MAX_RETRY - 1
    /\ RequestsSent[1].response # RequestsSent[MAX_RETRY].response

\* C17 as stated: for the answers 429, 429, 200 the fingerprinted session
\* retries twice, classifies both failures as rate-limited, and its two
\* backoffs are strictly increasing and each longer than any backoff of the
\* same attempt after a timeout.
RateLimitBackoffLonger ==
    (/\ sess.pc = "ready" /\ sess.variant = "curl" /\ sess.outcome = "returned"
     /\ Len(RequestsSent) = 3
     /\ RequestsSent[1].response = 429
     /\ RequestsSent[2].response = 429
     /\ RequestsSent[3].response = 200) =>
        /\ Len(BackoffsSlept) = 2
        /\ BackoffsSlept[1].rate_limited /\ BackoffsSlept[2].rate_limited
        /\ BackoffsSlept[1].backoff < BackoffsSlept[2].backoff
        /\ \A k \in 1..2 : BackoffsSlept[k].backoff > Backoff("curl", k, FALSE, "hi")

\* C18 as stated: through the retry wrapper each answer 403, 405, 503, 429 or
\* network error is followed by another request while fewer than max_retry
\* were made, and only a success response ends the attempts early.
FailuresRetried ==
    (sess.pc = "ready" /\ sess.outcome # "") =>
        LET n == Len(RequestsSent) IN
        /\ \A k \in 1..n : (RequestsSent[k].response # 200 /\ k < MAX_RETRY) => (k < n)
        /\ (n < MAX_RETRY) => (RequestsSent[n].response = 200)

---------------------------------------------------------------------------
(* Properties of the Category Crawler (CrawlSpec) *)

RECURSIVE Flatten(_)
Flatten(batches) ==
    IF batches = <<>> THEN <<>> ELSE Head(batches) \o Flatten(Tail(batches))

\* C19: every record put into a save batch has as popularity_rank the index
\* of the loop round that produced it, which is a position of its goods
\* number in the popularity list and is past every skipped entry before it;
\* its sales_rank is null when the goods number is not in the sales list and
\* otherwise the position of the goods number in the sales list (the last one
\* when the list shows it more than once).
RanksArePositions ==
    \A n \in DOMAIN crawl.collected :
        LET r == crawl.collected[n]
            pop == crawl.popularity_goods_numbers
            sales == crawl.sales_goods_numbers
        IN  /\ r.popularity_rank \in DOMAIN pop
            /\ pop[r.popularity_rank] = r.goods_no
            /\ r.popularity_rank >= n
            /\ r.popularity_rank < crawl.i
            /\ \A m \in DOMAIN crawl.collected :
                  (m < n) => (crawl.collected[m].popularity_rank < r.popularity_rank)
            /\ (r.sales_rank = None) <=> (r.goods_no \notin Range(sales))
            /\ (r.sales_rank # None) =>
                  /\ r.sales_rank \in DOMAIN sales
                  /\ sales[r.sales_rank] = r.goods_no
                  /\ \A k \in DOMAIN sales : (sales[k] = r.goods_no) => (k <= r.sales_rank)
            /\ r \in Range(Flatten(crawl.flushes) \o crawl.products_batch)

\* C19 witness: the third listed product is the first one collected, the two
\* before it were skipped, and it is not on the sales list
RanksWitness ==
    /\ crawl.pc = "done"
    /\ Len(crawl.collected) >= 2
    /\ crawl.collected[1].popularity_rank = 3
    /\ crawl.collected[1].sales_rank = None
    /\ crawl.collected[2].sales_rank = 2

\* C20: between two rounds the pending batch holds fewer than BATCH_SIZE
\* records; every flush but the last holds exactly BATCH_SIZE records and the
\* last between 1 and BATCH_SIZE; the flushes followed by the pending batch are
\* the collected records in order, and when the run is done every collected
\* record has been handed to save_products in exactly one flush.
BatchedFlushes ==
    /\ Len(crawl.products_batch) <= BATCH_SIZE
    /\ (crawl.pc = "loop") =>
          /\ Len(crawl.products_batch) < BATCH_SIZE
          /\ Flatten(crawl.flushes) \o crawl.products_batch = crawl.collected
          /\ \A f \in DOMAIN crawl.flushes : Len(crawl.flushes[f]) = BATCH_SIZE
    /\ (crawl.pc = "done") =>
          /\ Flatten(crawl.flushes) = crawl.collected
          /\ \A f \in DOMAIN crawl.flushes :
                /\ Len(crawl.flushes[f]) \in 1..BATCH_SIZE
                /\ (f < Len(crawl.flushes)) => (Len(crawl.flushes[f]) = BATCH_SIZE)
    /\ Len(crawl.collected) = crawl.collected_products
    /\ \A m, n \in DOMAIN crawl.collected : (crawl.collected[m] = crawl.collected[n]) => (m = n)

\* C20 witness: a run ended with one full flush and a remainder of one record
BatchedFlushesWitness ==
    /\ crawl.pc = "done"
    /\ Len(crawl.flushes) = 2
    /\ Len(crawl.flushes[1]) = BATCH_SIZE
    /\ Len(crawl.flushes[2]) = 1
    /\ crawl.saved_products = 1

---------------------------------------------------------------------------
(* Properties of the rank step (RankSpec) *)

\* C21: collect_rankings answers category-empty only when the first listing
\* page was fetched and reports a product count of exactly 0; when the fetch
\* failed, the retries were exhausted or the count could not be read, the
\* answer is an ordinary rank map, and the tasks of the group are marked
\* product_deleted only after a first page that reported the count 0.
EmptyOnlyOnZeroCount ==
    /\ CategoryEmpty(rank.pop_rankings) <=>
          (rank.pop_first.fetch = "ok" /\ rank.pop_first.count = 0)
    /\ CategoryEmpty(rank.sales_rankings) <=>
          (rank.sales_first.fetch = "ok" /\ rank.sales_first.count = 0)
    /\ (rank.pop_first.fetch \in {"failed", "raise"}) => (rank.pop_rankings = Rankings(<<>>))
    /\ (rank.sales_first.fetch \in {"failed", "raise"}) => (rank.sales_rankings = Rankings(<<>>))
    /\ (rank.verdict = "deleted") =>
          \/ (rank.pop_first.fetch = "ok" /\ rank.pop_first.count = 0)
          \/ (rank.sales_first.fetch = "ok" /\ rank.sales_first.count = 0)

\* C21 witness: the popularity listing could not be fetched, the sales listing
\* showed no readable count, and the group goes on to its items with the
\* ranks the sales listing gave
EmptyOnlyOnZeroCountWitness ==
    /\ rank.pc = "done"
    /\ rank.pop_first.fetch = "raise"
    /\ rank.sales_first = [fetch |-> "ok", count |-> -1]
    /\ rank.verdict = "items"
    /\ DOMAIN rank.sales_rankings.ranks = rank.target_goods

\* C29 as stated: in a sweep started by retry_missing_products() the collector
\* handed to RetryManager supports the rank collection and the single-product
\* re-collection the sweep calls, and the tasks of every selected group are
\* either marked product_deleted or go on to be attempted.
EntryPointCollectorSupportsSweep ==
    (rank.collector = EntryPointCollector /\ rank.pc = "done") =>
        /\ rank.verdict \in {"deleted", "items"}
        /\ Supports(rank.collector, "collect_rankings")
        /\ Supports(rank.collector, "collect_and_save_single_product")

---------------------------------------------------------------------------
(* Properties of detail records (DetailSpec) *)

---------------------------------------------------------------------------
(* Progress and isolation of the reconciliation engine *)

\* the most tasks the table holds: those left from last week and one per
\* missing product
MaxTasks == Len(LeftFromLastWeek) + Len(ScanOrder)

\* C24 as stated: while sweeps keep being run, every retry task in the table
\* eventually has status success, product_deleted or max_retries_reached.
EveryTaskSettles ==
    \A i \in 1..MaxTasks :
        [](i \in DOMAIN retries =>
              <>(i \in DOMAIN retries /\ retries[i].status \in Terminal))

\* the items of the running sweep
SweepItems(sw) == UNION {Range(sw.groups[k].items) : k \in DOMAIN sw.groups}

\* an item of the category before the current one was attempted in this sweep
\* (its rank collection answered ok) and ended failed or max_retries_reached
FailedEarlier(sw) ==
    /\ sw.ci > 1
    /\ sw.signal = "ok"
    /\ \E it \in Range(sw.groups[sw.ci - 1].items) :
          retries[it].status \in {"failed", "max_retries_reached"}

SuccessHasSnapshot ==
    \A i \in DOMAIN retries :
        (retries[i].status = "success") =>
            \E r \in history : RowKey(r) = TaskKey(retries[i])

\* C27 as stated: whenever process_missing_products is called (the engine is
\* idle) and the table holds tasks of the current week the queue select
\* returns, the call gets to the queue, whatever gap detection answers in it:
\* it does not take the early return of the empty answer.
EveryCallProcessesQueue ==
    (sweep.pc = "idle") =>
        \A findFault \in BOOLEAN :
            LET cur == get_current_iso_week(Days[today])
                prev == get_previous_iso_week(cur[1], cur[2])
                missing == IF findFault THEN {}
                           ELSE find_missing_products(history, brands, catalog,
                                                      prev[1], prev[2], cur[1], cur[2])
            IN  (retry_items(retries, cur[1], cur[2]) # <<>>) => (missing # {})

\* C28 as stated: a sweep that starts takes up every task of its target week
\* that is in status processing and has attempts left.
ProcessingReclaimed ==
    [][(sweep.pc = "idle" /\ sweep'.pc = "rank") =>
          \A i \in DOMAIN retries' :
              (/\ retries'[i].status = "processing"
               /\ retries'[i].target_year = sweep'.target_year
               /\ retries'[i].target_week_of_year = sweep'.target_week
               /\ retries'[i].attempt_count < retries'[i].max_attempts) =>
                  i \in SweepItems(sweep')]_vars

\* C30: no step changes a task that has status success, product_deleted or
\* max_retries_reached, no step removes a task from the table, and every task
\* keeps its key.
TerminalAbsorbing ==
    [][/\ Len(retries') >= Len(retries)
       /\ \A i \in DOMAIN retries :
            /\ i \in DOMAIN retries'
            /\ TaskKey(retries'[i]) = TaskKey(retries[i])
            /\ (retries[i].status \in Terminal) => (retries'[i] = retries[i])]_vars

\* C30 witness: a sweep attempts a task while another task of the same target
\* week, not among its items, is in a final status
TerminalAbsorbingWitness ==
    /\ sweep.pc = "attempt"
    /\ \E i \in DOMAIN retries :
          /\ retries[i].status \in Terminal
          /\ retries[i].target_year = sweep.target_year
          /\ retries[i].target_week_of_year = sweep.target_week
          /\ i \notin SweepItems(sweep)

----------------------------------------------------------------------------
(* Duplicate keys inside one batch (StoreSpec) *)

\* the valid records of the latest call hold one (goods_no, disp_cat_no) twice
DuplicateKeyInBatch ==
    LET valid == ValidProducts(last.products) IN
    \E i, j \in DOMAIN valid :
        /\ i # j
        /\ valid[i].goods_no = valid[j].goods_no
        /\ valid[i].disp_cat_no = valid[j].disp_cat_no

\* C31 as stated: an append whose batch holds two records of one
\* (goods_no, disp_cat_no), with no database fault, reports success and
\* leaves exactly one row for every key of the batch.
DuplicateKeyStoredOnce ==
    (/\ last.op = "append"
     /\ DuplicateKeyInBatch
     /\ ~last.insertFault
     /\ last.brandFault = {}) =>
        /\ last.result
        /\ \A k \in RequestedKeys : Cardinality({r \in history : RowKey(r) = k}) = 1

----------------------------------------------------------------------------
(* Gap detection (RetrySpec) *)

PairsOf(rows) == {<<r.goods_no, r.disp_cat_no>> : r \in rows}

\* the pairs with a snapshot of week prev ranked within the cutoff by sales,
\* without a snapshot of week cur, of a product the master table holds undeleted
MissingPairs(tbl, cat, prev, cur) ==
    LET ranked == {r \in tbl : /\ <<r.year, r.week_of_year>> = prev
                               /\ r.sales_rank \in 1..SALES_RANK_CUTOFF
                               /\ r.goods_no \in cat}
        present == {r \in tbl : <<r.year, r.week_of_year>> = cur}
    IN  PairsOf(ranked) \ PairsOf(present)

----------------------------------------------------------------------------
(* Brand reference of a retried product (BrandSpec) *)

\* C33: when the snapshot of the week before the target week carries brand id
\* b for the task's pair, every row the attempt stores has brand id b, and the
\* attempt neither adds a brand row nor takes an id from the brand sequence.
RetryBrandVerbatim ==
    [][(sweep.pc = "attempt" /\ sweep' # sweep) =>
          LET t == retries[sweep.groups[sweep.ci].items[sweep.ii]]
              prev == get_previous_iso_week(sweep.target_year, sweep.target_week)
          IN  \A p \in history :
                  (/\ RowKey(p) = <<t.goods_no, t.disp_cat_no, prev[1], prev[2]>>
                   /\ p.brandId # None) =>
                      /\ \A r \in history' \ history : r.brandId = p.brandId
                      /\ brands' = brands
                      /\ brandSeq' = brandSeq]_vars

\* C33 witness: a retry stored a snapshot with last week's brand id while the
\* brand table does not hold the name the product page carries
RetryBrandVerbatimWitness ==
    /\ \E i \in DOMAIN retries, r \in history :
          /\ retries[i].status = "success"
          /\ RowKey(r) = TaskKey(retries[i])
          /\ r.brandId = 7
    /\ ~\E b \in brands : b.name = "A"

----------------------------------------------------------------------------
(* The two ranking primitives (ListingSpec) *)

\* C34 as stated: every rank collect_rankings returns for a target equals the
\* 1-based position of that goods number in the list collect_goods_numbers
\* returns for the same pages, the position the full collection uses as rank.
RankIsListPosition ==
    (rank.pc = "read" /\ ~CategoryEmpty(rank.rankings)) =>
        LET sales_rank_map == SalesRankMap(rank.goods_numbers) IN
        \A g \in DOMAIN rank.rankings.ranks :
            rank.rankings.ranks[g] = MapGet(sales_rank_map, g)

----------------------------------------------------------------------------
(* Proxy rotation and the two session variants (SessSpec) *)

AntiBotBlock == SoftBlock \cup {429}

\* C35 as stated: with proxy rotation on, when an attempt of _retry_request
\* went through a proxy and was answered 403, 405, 503 or 429, the session
\* holds no current proxy before the next attempt, which therefore asks the
\* proxy manager for one.
AntiBotBlockDropsProxy ==
    (sess.pc = "calling" /\ sess.use_proxy /\ RequestsSent # <<>>) =>
        LET latest == RequestsSent[Len(RequestsSent)] IN
        (latest.proxy # "" /\ latest.response \in AntiBotBlock) =>
            (sess.current_proxy = "")

\* success body, failure value or raised error
ResultClass(outcome, result) ==
    IF outcome = "raised" THEN "raised error"
    ELSE IF result = 200 THEN "success body"
    ELSE "failure value"

OtherVariant(variant) == IF variant = "plain" THEN "curl" ELSE "plain"

\* C36 as stated: when a _retry_request call of one variant has ended, the
\* other variant, given the same answers to the same kind of request, makes
\* the same number of attempts and ends in the same result class.
VariantsAgree ==
    (sess.pc = "ready" /\ sess.outcome # "") =>
        LET responses == [k \in DOMAIN RequestsSent |-> RequestsSent[k].response]
            other == RunRequest(OtherVariant(sess.variant), sess.request.method, responses, 1)
        IN  /\ other.attempts = Len(responses)
            /\ other.outcome # "more"
            /\ ResultClass(other.outcome, other.result) =
                  ResultClass(sess.outcome, sess.result)

----------------------------------------------------------------------------
(* The processed flag of a collection run (RunSpec) *)

\* did the status update of the k-th category reach the database?
StatusWritten(k) ==
    /\ Len(run.asked[k].faults) <= STATUS_DB_MAX_RETRIES
    /\ \A j \in DOMAIN run.asked[k].faults : run.asked[k].faults[j] = "operational"

\* C37 as stated: a category handled by the run has is_processed = 1 with the
\* collected count exactly when collect_from_category reported success;
\* otherwise its flag is unchanged and it is on the failure list; every
\* category is handled whatever the categories before it did.
FlagIffCollected ==
    (run.pc # "off") =>
        /\ Len(run.asked) = run.i - 1
        /\ (run.pc = "done") => (Len(run.asked) = Len(Categories))
        /\ \A k \in DOMAIN run.asked :
              LET c == Categories[k]
                  o == run.asked[k].outcome
              IN  IF o.kind = "success"
                  THEN /\ run.categories[c] = [is_processed |-> 1,
                                               product_cnt |-> o.collected_products]
                       /\ c \notin Range(run.failed_categories)
                  ELSE /\ run.categories[c] = [is_processed |-> 0, product_cnt |-> 0]
                       /\ c \in Range(run.failed_categories)

\* C37, amended: as stated, except that a reported success leaves the flag
\* unchanged (and the category off the failure list) when the status update
\* met an error other than an operational one, or operational errors on all
\* of its DB_MAX_RETRIES + 1 tries.
FlagIffCollectedAndWritten ==
    (run.pc # "off") =>
        /\ Len(run.asked) = run.i - 1
        /\ (run.pc = "done") => (Len(run.asked) = Len(Categories))
        /\ \A k \in DOMAIN run.asked :
              LET c == Categories[k]
                  o == run.asked[k].outcome
              IN  /\ run.results[k] = (o.kind = "success")
                  /\ (c \in Range(run.failed_categories)) <=> (o.kind # "success")
                  /\ run.categories[c] =
                        IF o.kind = "success" /\ StatusWritten(k)
                        THEN [is_processed |-> 1, product_cnt |-> o.collected_products]
                        ELSE [is_processed |-> 0, product_cnt |-> 0]

\* C37 witness: the run is through; the first category failed and is on the
\* failure list with its flag unchanged, the second was collected and flagged
\* after one failed try of the status update
FlagIffCollectedWitness ==
    /\ run.pc = "done"
    /\ run.asked[1].outcome.kind \in {"failure", "raise"}
    /\ run.categories[Categories[1]].is_processed = 0
    /\ run.failed_categories = <<Categories[1]>>
    /\ run.asked[2].outcome.kind = "success"
    /\ run.asked[2].faults = <<"operational">>
    /\ run.categories[Categories[2]] = [is_processed |-> 1, product_cnt |-> MaxCollected]

----------------------------------------------------------------------------
(* Snapshot rows are never changed (StoreSpec) *)

\* C38: every row of the snapshot table is still in the table, unchanged,
\* after any step; appends only add rows.
SnapshotsAppendOnly ==
    [][history \subseteq history']_vars

\* C38 witness: an append on a table that held a row inserted a new row and,
\* in the same batch, was handed a record for a stored key with another brand
SnapshotsAppendOnlyWitness ==
    /\ last.op = "append"
    /\ last.result
    /\ last.before # {}
    /\ last.inserted # {}
    /\ \E i \in DOMAIN last.products, r \in last.before :
          /\ <<last.products[i].goods_no, last.products[i].disp_cat_no>> =
                <<r.goods_no, r.disp_cat_no>>
          /\ RowKey(r) \in RequestedKeys
          /\ last.products[i].brand # r.brand
    /\ last.before \subseteq history

----------------------------------------------------------------------------
(* Two sweeps at once (SweepsSpec) *)

\* C39 as stated: when two sweeps running side by side have both created
\* their retry records, no two tasks of the retry table have the same
\* (goods_no, disp_cat_no, target_year, target_week_of_year).
ConcurrentSweepsOneTaskPerKey ==
    (sweeps # NoSweeps /\ \A p \in Sweepers : sweeps[p].pc = "done") =>
        \A i, j \in DOMAIN retries :
            (TaskKey(retries[i]) = TaskKey(retries[j])) => (i = j)

----------------------------------------------------------------------------
(* Two appends at once (WritersSpec) *)

\* the keys call w was asked to store
WriterKeys(w) ==
    LET valid == ValidProducts(writers[w].products) IN
    {<<valid[i].goods_no, valid[i].disp_cat_no,
       EffectiveYear(Days[today], writers[w].target_year),
       EffectiveWeek(Days[today], writers[w].target_week)>> : i \in DOMAIN valid}

\* C40 as stated: when a flush and a retry append that share a key have both
\* ended, the table holds exactly one row for every key of either batch.
ConcurrentAppendsStoreAll ==
    (/\ writers # NoWriters
     /\ \A w \in Writers : writers[w].pc = "done"
     /\ WriterKeys("flush") \cap WriterKeys("retry") # {}) =>
        \A k \in WriterKeys("flush") \cup WriterKeys("retry") :
            Cardinality({r \in history : RowKey(r) = k}) = 1

====
